---- MODULE Spec2Model ----
(***************************************************************************)
(* Closed-loop remediation engine of SmartOps                              *)
(* (apps/orchestrator/services/closed_loop.py): the queue, the single      *)
(* worker, the cooldown and fleet guardrails, the call of the execution    *)
(* layer and the retry path.  Time is in whole seconds.                    *)
(***************************************************************************)
EXTENDS Integers, Sequences, FiniteSets, TLC

VARIABLES
    clock,            \* time.time(), seconds
    maxsize,          \* CLOSED_LOOP_QUEUE_MAXSIZE the queue was built with (0 = unbounded)
    max_actions_per_hour, \* GUARDRAIL_MAX_ACTIONS_PER_HOUR the manager was built with
    queue,            \* self.queue: sequence of QueueItem
    worker_task,      \* self._worker_task is not None
    pc,               \* where the worker is suspended: "get", "execute", "sleep"
    cur,              \* the item in _process_item with its locals (<<>> when none)
    last_action_at,   \* self._last_action_at: key -> timestamp
    action_history,   \* self._action_history: key -> list of timestamps
    scale_history,    \* self._scale_history: (ns, name) -> list of (timestamp, delta)
    replicas,         \* spec.replicas of the deployments in the cluster
    next_id,          \* number of signals ingested so far (identity of the next one)
    ticks,            \* number of times the clock was advanced while the worker waited
    submitted,        \* history: key -> times (now) of the calls of execute_action
    exec_count,       \* history: signal id -> number of calls of execute_action
    first_replicas,   \* history: signal id -> spec.replicas of its target when its first
                      \*          scale was requested (<<>> when none was)
    last_success,     \* history: key -> the latest verified success: its time (now)
                      \*          and its position among the key's submissions
    last_event,       \* history: what the latest step of the worker / producer did
    unfinished_tasks, \* asyncio.Queue._unfinished_tasks: puts not yet matched by task_done
    runner,           \* one call of ActionRunner.run: its arguments, locals and result
    verifier,         \* one call of verify_deployment_rollout with the deployment it reads
    lifecycle,        \* start()/stop() callers and the worker tasks they created
    gate,              \* one call of execute_action: its request, the answers it gets, its outcome
    ingest,   \* the ingestion endpoints: the Signal Store, the request being served, its response
    store,   \* PolicyStore: the policy file, self._policies, self._lock, the threads calling it
    evaluator,   \* evaluate_signal_with_policies: its arguments, the clock, _last_restart_at, its outcome
    engine   \* the Policy Engine beside the store and one evaluator: paired evaluations

(* The state of the closed loop, and the three components that are       *)
(* specified on their own.                                                *)
closed_loop_vars ==
    <<clock, maxsize, max_actions_per_hour, queue, worker_task, pc, cur,
      last_action_at, action_history, scale_history, replicas, next_id, ticks,
      submitted, exec_count, first_replicas, last_success, last_event,
      unfinished_tasks>>

components == <<runner, verifier, lifecycle, gate, ingest, store, evaluator, engine>>

(* what a step of one component leaves alone *)
beside_runner == <<closed_loop_vars, verifier, lifecycle, gate, ingest, store, evaluator, engine>>
beside_verifier == <<closed_loop_vars, runner, lifecycle, gate, ingest, store, evaluator, engine>>
beside_lifecycle == <<closed_loop_vars, runner, verifier, gate, ingest, store, evaluator, engine>>
beside_gate == <<closed_loop_vars, runner, verifier, lifecycle, ingest, store, evaluator, engine>>
beside_ingest == <<closed_loop_vars, runner, verifier, lifecycle, gate, store, evaluator, engine>>
beside_store == <<closed_loop_vars, runner, verifier, lifecycle, gate, ingest, evaluator, engine>>
beside_evaluator == <<closed_loop_vars, runner, verifier, lifecycle, gate, ingest, store, engine>>
beside_engine == <<closed_loop_vars, runner, verifier, lifecycle, gate, ingest, store, evaluator>>

vars == <<closed_loop_vars, components>>

----------------------------------------------------------------------------
(* Bounds of the model *)

MaxSignals == 2
MaxTicks == 1
BoundedQueueSize == 1


(* Program constants *)

cooldown_seconds == 300
max_retries == 2
base_backoff_seconds == 5
max_replicas == 8
max_scale_increase_15m == 3
HourWindow == 3600
ScaleWindow == 900

DEFAULT_NAMESPACE == "smartops-dev"
SMARTOPS_PREFIX == "smartops-"

----------------------------------------------------------------------------
(* Small helpers: Python dict.get, list comprehension, sum, 2 ** n *)

DictGet(d, k, default) == IF k \in DOMAIN d THEN d[k] ELSE default

DictSet(d, k, v) == [x \in (DOMAIN d) \cup {k} |-> IF x = k THEN v ELSE d[x]]

RECURSIVE FilterSince(_, _)
FilterSince(ts, cutoff) ==
    IF ts = <<>> THEN <<>>
    ELSE IF Head(ts) >= cutoff
         THEN <<Head(ts)>> \o FilterSince(Tail(ts), cutoff)
         ELSE FilterSince(Tail(ts), cutoff)

RECURSIVE FilterPairsSince(_, _)
FilterPairsSince(ps, cutoff) ==
    IF ps = <<>> THEN <<>>
    ELSE IF Head(ps)[1] >= cutoff
         THEN <<Head(ps)>> \o FilterPairsSince(Tail(ps), cutoff)
         ELSE FilterPairsSince(Tail(ps), cutoff)

RECURSIVE SumPositive(_)
SumPositive(ps) ==
    IF ps = <<>> THEN 0
    ELSE (IF Head(ps)[2] > 0 THEN Head(ps)[2] ELSE 0) + SumPositive(Tail(ps))

RECURSIVE Pow2(_)
Pow2(n) == IF n = 0 THEN 1 ELSE 2 * Pow2(n - 1)

----------------------------------------------------------------------------
(* Signals, queue items and the names of workloads.  A name is the sequence *)
(* of its parts, so that the prefix test of the resolver is a real test.    *)

FriendlyName == <<"erp-simulator">>
CanonicalName == <<SMARTOPS_PREFIX, "erp-simulator">>

AnomalySignals ==
    { [service |-> FriendlyName, type |-> t, rankedCauses |-> <<>>] :
        t \in {"resource", "latency"} }

RcaSignals ==
    { [service |-> FriendlyName, type |-> "none", rankedCauses |-> rc] :
        rc \in { <<>>,
                 << [svc |-> CanonicalName, cause |-> <<"CPU", "saturation">>] >> } }

QueueItem(kind, signal, attempt, enqueued_at, id) ==
    [kind |-> kind, signal |-> signal, attempt |-> attempt,
     enqueued_at |-> enqueued_at, id |-> id]

resolve_deployment_name(name) ==
    IF Len(name) >= 1 /\ name[1] = SMARTOPS_PREFIX
    THEN name
    ELSE <<SMARTOPS_PREFIX>> \o name

(* str.lower() on the words that occur in causes and exception details *)
Lower(w) ==
    CASE w = "CPU" -> "cpu"
      [] w = "Replica" -> "replica"
      [] w = "Failed" -> "failed"
      [] w = "SCALE" -> "scale"
      [] w = "Policy" -> "policy"
      [] w = "Engine" -> "engine"
      [] OTHER -> w

(* "<word> in text.lower()" *)
Contains(text, word) == \E i \in 1..Len(text) : Lower(text[i]) = word

----------------------------------------------------------------------------
(* Cluster reads.  list_deployments either raises (listOk = FALSE) or      *)
(* returns the deployments; None is <<>>, a value n is <<n>>.              *)

get_current_replicas(deployment_name, listOk) ==
    IF ~listOk THEN <<>>
    ELSE IF deployment_name \in DOMAIN replicas
         THEN <<replicas[deployment_name]>>
         ELSE <<>>

Target(name) == [kind |-> "Deployment", namespace |-> DEFAULT_NAMESPACE, name |-> name]

ScaleRequest(name, desired) ==
    [type |-> "scale", target |-> Target(name), dry_run |-> FALSE,
     scale |-> <<desired>>, verify |-> TRUE]

RestartRequest(name) ==
    [type |-> "restart", target |-> Target(name), dry_run |-> FALSE,
     scale |-> <<>>, verify |-> TRUE]

(* Both mappers return <<>> for None and <<request>> otherwise *)
map_anomaly_to_action(signal, listOk) ==
    LET resolved_name == resolve_deployment_name(signal.service)
        current == get_current_replicas(resolved_name, listOk)
    IN  IF signal.type = "resource"
        THEN IF current = <<>> THEN <<>>
             ELSE << ScaleRequest(resolved_name, current[1] + 1) >>
        ELSE << RestartRequest(resolved_name) >>

map_rca_to_action(signal, listOk) ==
    IF signal.rankedCauses = <<>> THEN <<>>
    ELSE
    LET primary == signal.rankedCauses[1]
        cause == primary.cause
        svc == IF primary.svc # <<>> THEN primary.svc ELSE signal.service
        resolved_name == resolve_deployment_name(svc)
        current == get_current_replicas(resolved_name, listOk)
    IN  IF Contains(cause, "memory_leak") \/ Contains(cause, "memory leak")
        THEN << RestartRequest(resolved_name) >>
        ELSE IF Contains(cause, "cpu") \/ Contains(cause, "saturation")
        THEN IF current = <<>> THEN <<>>
             ELSE << ScaleRequest(resolved_name, current[1] + 1) >>
        ELSE << RestartRequest(resolved_name) >>

MapItem(item, listOk) ==
    IF item.kind = "anomaly"
    THEN map_anomaly_to_action(item.signal, listOk)
    ELSE map_rca_to_action(item.signal, listOk)

KeyOf(action_req) ==
    <<action_req.target.namespace, action_req.target.name, action_req.type>>

----------------------------------------------------------------------------
(* Cooldown and fleet guardrails of _process_item (steps 2 and 2b).        *)

(* Mutant: the comparison of the elapsed time is inverted *)
CooldownActiveInverted(key, now) ==
    /\ key \in DOMAIN last_action_at
    /\ now - last_action_at[key] > cooldown_seconds

CooldownActive(key, now) ==
    /\ key \in DOMAIN last_action_at
    /\ now - last_action_at[key] < cooldown_seconds

(* the per-hour history of the key after the list comprehension of line 329 *)
PrunedHistory(key, now) ==
    FilterSince(DictGet(action_history, key, <<>>), now - HourWindow)

(* Mutant: off by one, the cap is exceeded before the item is blocked *)
HourlyCapReachedOffByOne(history) == Len(history) > max_actions_per_hour

HourlyCapReached(history) == Len(history) >= max_actions_per_hour

ReplicaCapExceeded(desired) == max_replicas > 0 /\ desired > max_replicas

PrunedScaleHistory(sh_key, now) ==
    FilterPairsSince(DictGet(scale_history, sh_key, <<>>), now - ScaleWindow)

ScaleIncreaseExceeded(shistory, delta) ==
    SumPositive(shistory) + delta > max_scale_increase_15m

Verdict(v, reason, ah, sh) ==
    [verdict |-> v, reason |-> reason, action_history |-> ah, scale_history |-> sh]

(* The scale-specific guardrails; ah is the per-hour dict after pruning.   *)
ScaleGuardrails(action_req, now, listOk, ah) ==
    LET name == action_req.target.name
        sh_key == <<action_req.target.namespace, name>>
        current == get_current_replicas(name, listOk)
        desired == action_req.scale[1]
        delta == desired - current[1]
        shistory == PrunedScaleHistory(sh_key, now)
    IN  IF current = <<>>
        THEN Verdict("pass", "none", ah, scale_history)
        ELSE IF ReplicaCapExceeded(desired)
        THEN Verdict("blocked", "max_replicas_exceeded", ah, scale_history)
        ELSE IF delta > 0 /\ max_scale_increase_15m > 0
        THEN IF ScaleIncreaseExceeded(shistory, delta)
             THEN Verdict("blocked", "max_scale_increase_15m_exceeded", ah, scale_history)
             ELSE Verdict("pass", "none", ah,
                          DictSet(scale_history, sh_key, Append(shistory, <<now, delta>>)))
        ELSE Verdict("pass", "none", ah, scale_history)

(* Mutant: a blocked item is recorded in the per-hour history as well *)
GuardrailsCountingBlocked(action_req, now, listOk) ==
    LET key == KeyOf(action_req)
        history == PrunedHistory(key, now)
        ah1 == IF max_actions_per_hour > 0
               THEN DictSet(action_history, key, history)
               ELSE action_history
        v == IF action_req.type = "scale" /\ action_req.scale # <<>>
             THEN ScaleGuardrails(action_req, now, listOk, ah1)
             ELSE Verdict("pass", "none", ah1, scale_history)
    IN  IF CooldownActive(key, now)
        THEN Verdict("cooldown", "none", action_history, scale_history)
        ELSE IF max_actions_per_hour > 0 /\ HourlyCapReached(history)
        THEN Verdict("blocked", "max_actions_per_hour_exceeded",
                     DictSet(ah1, key, Append(history, now)), scale_history)
        ELSE IF max_actions_per_hour > 0
        THEN [v EXCEPT !.action_history =
                 DictSet(ah1, key, Append(DictGet(ah1, key, <<>>), now))]
        ELSE v

(* Steps 2 and 2b as one decision: the verdict and the guardrail state it  *)
(* leaves behind.  A pass also appends now to the per-hour history.        *)
Guardrails(action_req, now, listOk) ==
    LET key == KeyOf(action_req)
        history == PrunedHistory(key, now)
        ah1 == IF max_actions_per_hour > 0
               THEN DictSet(action_history, key, history)
               ELSE action_history
        v == IF action_req.type = "scale" /\ action_req.scale # <<>>
             THEN ScaleGuardrails(action_req, now, listOk, ah1)
             ELSE Verdict("pass", "none", ah1, scale_history)
    IN  IF CooldownActive(key, now)
        THEN Verdict("cooldown", "none", action_history, scale_history)
        ELSE IF max_actions_per_hour > 0 /\ HourlyCapReached(history)
        THEN Verdict("blocked", "max_actions_per_hour_exceeded", ah1, scale_history)
        ELSE IF v.verdict = "pass" /\ max_actions_per_hour > 0
        THEN [v EXCEPT !.action_history =
                 DictSet(ah1, key, Append(DictGet(ah1, key, <<>>), now))]
        ELSE v

----------------------------------------------------------------------------
(* The execution layer as the worker sees it: the awaited call returns an  *)
(* ActionResult or raises.                                                 *)

ORCH_MIN_REPLICAS == 1
ORCH_MAX_REPLICAS == 10

NoException == [cls |-> "none", status_code |-> 0, detail |-> <<>>]

HTTPException(status_code, detail) ==
    [cls |-> "HTTPException", status_code |-> status_code, detail |-> detail]

(* action_runner._enforce_scale_guardrails: the error text, or <<>> for None *)
enforce_scale_guardrails(n) ==
    IF n < ORCH_MIN_REPLICAS \/ n > ORCH_MAX_REPLICAS
    THEN <<"Replica", "guardrail", "violated">>
    ELSE <<>>

(* What the awaited execute_action did: returned an ActionResult or raised; *)
(* applied tells whether the action reached the cluster before that.        *)
Returned(success, verification) ==
    [raised |-> FALSE, exc |-> NoException, success |-> success,
     verification |-> verification, applied |-> TRUE]

Raised(exc, applied) ==
    [raised |-> TRUE, exc |-> exc, success |-> FALSE, verification |-> "NONE",
     applied |-> applied]

VerificationOutcomes == {"NONE", "SUCCESS", "FAILED", "TIMED_OUT"}

(* The runner reported status "failed": HTTP 500 with the runner's error *)
RunnerFailed ==
    HTTPException(500, <<"Failed", "SCALE", "action", "replica", "patch",
                         "rejected">>)

(* An exception that is not an HTTPException (a cluster read that fails in *)
(* the policy gate or in the rollout verification)                         *)
ClusterError == [cls |-> "Exception", status_code |-> 0, detail |-> <<"guardrail">>]

TransientExceptions == {RunnerFailed, ClusterError}

ExecuteOutcomes(action_req) ==
    LET error == IF action_req.type = "scale"
                 THEN enforce_scale_guardrails(action_req.scale[1])
                 ELSE <<>>
    IN  { Raised(e, FALSE) : e \in TransientExceptions } \cup
        ( IF error # <<>>
          THEN { Raised(HTTPException(400, error), FALSE) }
          ELSE { Returned(TRUE, v) : v \in VerificationOutcomes } \cup
               { Raised(ClusterError, TRUE) } )

(* Mutant: the status code of the HTTPException is not looked at *)
is_guardrail_exception_any_status(exc) ==
    /\ exc.cls = "HTTPException"
    /\ (Contains(exc.detail, "guardrail") \/ Contains(exc.detail, "replica"))

is_guardrail_exception(exc) ==
    /\ exc.cls = "HTTPException"
    /\ exc.status_code = 400
    /\ (Contains(exc.detail, "guardrail") \/ Contains(exc.detail, "replica"))

(* Mutant: a failed verification is retried like a timed-out one *)
RetryAllowedAlsoFailed(verification) ==
    IF verification # "NONE"
    THEN IF verification = "TIMED_OUT" THEN TRUE
         ELSE IF verification = "FAILED" THEN TRUE
         ELSE TRUE
    ELSE TRUE

(* lines 494-503 *)
RetryAllowed(verification) ==
    IF verification # "NONE"
    THEN IF verification = "TIMED_OUT" THEN TRUE
         ELSE IF verification = "FAILED" THEN FALSE
         ELSE TRUE
    ELSE TRUE

(* Mutant: the verification status is not looked at *)
VerifiedSuccessIgnoringVerification(outcome) == outcome.success

VerifiedSuccess(outcome) ==
    outcome.success /\ outcome.verification # "NONE" /\ outcome.verification = "SUCCESS"

(* Mutant: one retry too many *)
RetryDueInclusive(retry_allowed, item) == retry_allowed /\ item.attempt <= max_retries

RetryDue(retry_allowed, item) == retry_allowed /\ item.attempt < max_retries

RetryDelay(item) == base_backoff_seconds * Pow2(item.attempt)

RetryItem(item) ==
    QueueItem(item.kind, item.signal, item.attempt + 1, item.enqueued_at, item.id)

(* Mutant: a put places the item ahead of the waiting ones *)
put_nowait_first(q, item) == <<item>> \o q

(* asyncio.Queue.put_nowait: the item goes       to the right end of the   *)
(* deque, get takes from the left end                                      *)
put_nowait(q, item) == Append(q, item)

(* Mutant: the queue is built without its maxsize, so it is never full *)
QueueNeverFull == maxsize < 0

QueueFull == maxsize > 0 /\ Len(queue) >= maxsize

----------------------------------------------------------------------------
(* ActionRunner.run: one call, stepped from suspension to suspension (the  *)
(* call of action_fn, time.sleep).  Times are in milliseconds.             *)

runner_base_backoff_ms == 500
runner_max_backoff_ms == 5000

(* ActionRunner(max_retries=...) *)
RunnerMaxRetries == {0, 1, 2}

(* kwargs.get("replicas"): <<>> is None *)
RunnerReplicas == {<<>>, <<0>>, <<1>>, <<10>>, <<11>>}

(* str(exc) of what action_fn raises *)
RunnerErrors == {"conflict", "timeout"}

RunnerIdle ==
    [pc |-> "idle", action_type |-> "none", replicas |-> <<>>,
     dry_run |-> FALSE, enforce |-> FALSE, max_retries |-> 0, attempt |-> 0,
     attempts |-> 0, calls |-> 0, raised |-> 0, sleeps |-> 0, slept |-> 0,
     last_error |-> <<>>, applied |-> FALSE, result |-> <<>>]

(* run(action_type, action_fn, dry_run=..., replicas=...) is entered *)
RunnerCalls ==
    { [RunnerIdle EXCEPT !.pc = "enter", !.action_type = t, !.replicas = n,
                         !.dry_run = d, !.enforce = e, !.max_retries = m] :
        t \in {"scale", "restart"}, n \in RunnerReplicas, d \in BOOLEAN,
        e \in BOOLEAN, m \in RunnerMaxRetries }

(* _enforce_scale_guardrails(replicas, target) under the setting           *)
(* ORCH_ENFORCE_REPLICA_GUARDRAILS                                         *)
scale_guardrail_error(enforce, n) ==
    IF ~enforce THEN <<>>
    ELSE IF n = <<>> THEN <<>>
    ELSE enforce_scale_guardrails(n[1])

(* Mutant: the dry-run short-circuit precedes the bound check *)
GuardrailBlocksUnlessDryRun(r) ==
    /\ ~r.dry_run
    /\ r.action_type = "scale"
    /\ scale_guardrail_error(r.enforce, r.replicas) # <<>>

(* if action_type == "scale": error = ...; if error: return failed *)
GuardrailBlocks(r) ==
    /\ r.action_type = "scale"
    /\ scale_guardrail_error(r.enforce, r.replicas) # <<>>

(* Mutant: only a scale is short-circuited by dry_run *)
DryRunShortCircuitScaleOnly(r) == r.dry_run /\ r.action_type = "scale"

(* if dry_run: return the dry_run result *)
DryRunShortCircuit(r) == r.dry_run

(* Mutant: the loop leaves one attempt too late *)
ExhaustedOneLate(attempt, m) == attempt > m

(* if attempt >= self.max_retries: break *)
Exhausted(attempt, m) == attempt >= m

Min(a, b) == IF a < b THEN a ELSE b

(* _compute_backoff(attempt): jitter is uniform in [0, 20% of base] *)
compute_backoff(attempt) ==
    LET base == Min(runner_max_backoff_ms, runner_base_backoff_ms * Pow2(attempt))
    IN  { base + jitter : jitter \in {0, base \div 10, base \div 5} }

RunnerResult(status, attempts, error) ==
    << [status |-> status, attempts |-> attempts, error |-> error] >>

(* the statements after the for loop: status failed with the last error *)
RunnerFailedResult(r) ==
    RunnerResult("failed", r.attempts,
                 IF r.last_error # <<>> THEN r.last_error ELSE <<"Unknown error">>)

(* From the entry of run to the first call of action_fn or to the return  *)
(* of a short-circuit                                                      *)
RunnerEnter ==
    /\ runner.pc = "enter"
    /\ runner' =
         IF GuardrailBlocks(runner)
         THEN [runner EXCEPT !.pc = "done",
                  !.result = RunnerResult("failed", 0,
                                 scale_guardrail_error(runner.enforce, runner.replicas))]
         ELSE IF DryRunShortCircuit(runner)
         THEN [runner EXCEPT !.pc = "done",
                  !.result = RunnerResult("dry_run", 0, <<>>)]
         ELSE IF runner.max_retries + 1 <= 0
         THEN [runner EXCEPT !.pc = "done", !.result = RunnerFailedResult(runner)]
         ELSE [runner EXCEPT !.pc = "attempt", !.attempt = 0]
    /\ UNCHANGED beside_runner

(* One iteration of the for loop up to its sleep: action_fn returns, or    *)
(* raises an Exception                                                     *)
RunnerAttempt ==
    /\ runner.pc = "attempt"
    /\ LET r == [runner EXCEPT !.attempts = runner.attempt + 1,
                               !.calls = runner.calls + 1]
       IN  \/ runner' = [r EXCEPT !.pc = "done", !.applied = TRUE,
                            !.result = RunnerResult("success", r.attempts, <<>>)]
           \/ \E e \in RunnerErrors :
                LET f == [r EXCEPT !.last_error = <<e>>, !.raised = r.raised + 1]
                IN  runner' = IF Exhausted(f.attempt, f.max_retries)
                              THEN [f EXCEPT !.pc = "done",
                                             !.result = RunnerFailedResult(f)]
                              ELSE [f EXCEPT !.pc = "sleep"]
    /\ UNCHANGED beside_runner

(* time.sleep(backoff) is over: the next iteration, or the end of the loop *)
RunnerBackoffDone ==
    /\ runner.pc = "sleep"
    /\ \E backoff \in compute_backoff(runner.attempt) :
        LET r == [runner EXCEPT !.sleeps = runner.sleeps + 1,
                                !.slept = runner.slept + backoff,
                                !.attempt = runner.attempt + 1]
        IN  runner' = IF r.attempt < r.max_retries + 1
                      THEN [r EXCEPT !.pc = "attempt"]
                      ELSE [r EXCEPT !.pc = "done", !.result = RunnerFailedResult(r)]
    /\ UNCHANGED beside_runner

----------------------------------------------------------------------------
(* verify_deployment_rollout: one call with the deployment it reads.  The  *)
(* cluster is not under the service's control: every read can observe any  *)
(* deployment status.  Times are in seconds.                               *)

(* DeploymentVerificationRequest.expected_replicas: <<>> is None *)
ExpectedReplicas == {<<>>, <<2>>, <<4>>}

(* DeploymentVerificationRequest.timeout_seconds / poll_interval_seconds *)
VerifyTimeouts == {5, 10}
VerifyPollIntervals == {5}

(* time.time() - start is followed up to MaxElapsed, beyond every timeout  *)
(* of VerifyTimeouts plus one sleep                                        *)
MaxElapsed == 20

(* What read_namespaced_deployment can return: spec.replicas, the status   *)
(* counters, status.observed_generation (<<>> is None), metadata.generation *)
DeploymentStates ==
    [replicas : {2, 4}, updated_replicas : {2, 4}, ready_replicas : {2, 4},
     available_replicas : {2, 4}, observed_generation : {<<>>, <<1>>, <<2>>},
     generation : {<<2>>}]

NoDeployment ==
    [replicas |-> 0, updated_replicas |-> 0, ready_replicas |-> 0,
     available_replicas |-> 0, observed_generation |-> <<>>, generation |-> <<>>]

VerifierIdle ==
    [pc |-> "idle", expected_replicas |-> <<>>, timeout_seconds |-> 0,
     poll_interval_seconds |-> 0, desired |-> 0, elapsed |-> 0, polls |-> 0,
     last_observed |-> NoDeployment, fault |-> <<>>, result |-> <<>>]

(* str(exc) of what a read of the deployment raises *)
ReadFaults == {"ApiException 500", "ConnectionError"}

VerifierCalls ==
    { [VerifierIdle EXCEPT !.pc = "enter", !.expected_replicas = e,
                           !.timeout_seconds = t, !.poll_interval_seconds = p] :
        e \in ExpectedReplicas, t \in VerifyTimeouts, p \in VerifyPollIntervals }

DeploymentVerificationResult(status, desired, last) ==
    << [status |-> status, desired_replicas |-> desired,
        ready_replicas |-> last.ready_replicas,
        available_replicas |-> last.available_replicas, exception |-> <<>>] >>

(* the condition of wait_for_deployment_rollout for "success": desired is  *)
(* spec.replicas of the deployment just read                               *)
RolledOut(dep) ==
    /\ dep.observed_generation # <<>>
    /\ dep.generation # <<>>
    /\ dep.observed_generation[1] >= dep.generation[1]
    /\ dep.updated_replicas >= dep.replicas
    /\ dep.ready_replicas >= dep.replicas
    /\ dep.available_replicas >= dep.replicas

(* Mutant: the loop has no timeout *)
TimedOutNever(elapsed, timeout_seconds) == elapsed < 0

(* if elapsed > timeout_seconds *)
TimedOut(elapsed, timeout_seconds) == elapsed > timeout_seconds

(* time.sleep(poll_interval_seconds + jitter), jitter uniform in           *)
(* [0, 20% of the interval]                                                *)
PollSleeps(poll_interval_seconds) ==
    { poll_interval_seconds + jitter : jitter \in {0, poll_interval_seconds \div 5} }

(* get_deployment_status: raises (result FAILED, no desired count) or      *)
(* returns the status from which desired is taken when expected_replicas   *)
(* is None                                                                 *)
VerifyEnter ==
    /\ verifier.pc = "enter"
    /\ \/ \E exc \in ReadFaults :
            verifier' = [verifier EXCEPT !.pc = "done", !.fault = <<exc>>,
                          !.result = << [status |-> "FAILED", desired_replicas |-> <<>>,
                                         ready_replicas |-> <<>>,
                                         available_replicas |-> <<>>,
                                         exception |-> <<exc>>] >>]
       \/ \E initial_status \in DeploymentStates :
            verifier' = [verifier EXCEPT !.pc = "poll",
                            !.desired = IF verifier.expected_replicas # <<>>
                                        THEN verifier.expected_replicas[1]
                                        ELSE initial_status.replicas]
    /\ UNCHANGED beside_verifier

(* One iteration of the loop of wait_for_deployment_rollout up to its      *)
(* sleep, and what verify_deployment_rollout makes of a result; what the   *)
(* read raises leaves wait_for_deployment_rollout, the executor and        *)
(* verify_deployment_rollout, which has no except clause around the wait   *)
RolloutPoll ==
    /\ verifier.pc = "poll"
    /\ \/ \E exc \in ReadFaults :
            verifier' = [verifier EXCEPT !.pc = "raised", !.polls = @ + 1,
                                         !.fault = <<exc>>]
       \/ \E dep \in DeploymentStates :
            LET v == [verifier EXCEPT !.last_observed = dep, !.polls = @ + 1]
            IN  verifier' =
                  IF RolledOut(dep)
                  THEN [v EXCEPT !.pc = "done",
                          !.result = DeploymentVerificationResult("SUCCESS", v.desired, dep)]
                  ELSE IF TimedOut(v.elapsed, v.timeout_seconds)
                  THEN [v EXCEPT !.pc = "done",
                          !.result = DeploymentVerificationResult("TIMED_OUT", v.desired, dep)]
                  ELSE [v EXCEPT !.pc = "sleep"]
    /\ UNCHANGED beside_verifier

RolloutSleepDone ==
    /\ verifier.pc = "sleep"
    /\ \E sleep_for \in PollSleeps(verifier.poll_interval_seconds) :
         verifier' = [verifier EXCEPT !.pc = "poll",
                                      !.elapsed = Min(@ + sleep_for, MaxElapsed)]
    /\ UNCHANGED beside_verifier

----------------------------------------------------------------------------
(* start() and stop() called from several asyncio tasks.  stop() suspends  *)
(* at "await self._worker_task", so other callers and the worker tasks run *)
(* between its cancel() and its "self._worker_task = None".  The queue is  *)
(* kept as the number of items waiting.                                    *)

MaxTasks == 3
MaxStopCallers == 2
MaxPending == 2

TaskIds == 1..MaxTasks
StopCallers == 1..MaxStopCallers

(* a worker task: "new" (not created), "waiting" (suspended in             *)
(* queue.get), "processing" (suspended inside _process_item), "done"       *)
LifecycleIdle ==
    [worker_task |-> <<>>,
     tasks |-> [t \in TaskIds |-> [state |-> "new", must_cancel |-> FALSE]],
     stopping |-> [c \in StopCallers |-> <<>>],
     pending |-> 0, puts |-> 0, task_done |-> 0]

(* if self._worker_task is None *)
StartCreates(l) == l.worker_task = <<>>

(* start(): loop.create_task(self._worker()) *)
LStart ==
    /\ StartCreates(lifecycle)
    /\ \E t \in TaskIds :
        /\ lifecycle.tasks[t].state = "new"
        /\ \A u \in TaskIds : u < t => lifecycle.tasks[u].state # "new"
        /\ lifecycle' = [lifecycle EXCEPT !.worker_task = <<t>>,
                                          !.tasks[t].state = "waiting"]
    /\ UNCHANGED beside_lifecycle

(* stop() up to its await: self._worker_task.cancel() *)
LStopBegin(c) ==
    /\ lifecycle.stopping[c] = <<>>
    /\ lifecycle.worker_task # <<>>
    /\ LET t == lifecycle.worker_task[1]
       IN  lifecycle' = [lifecycle EXCEPT
                           !.stopping[c] = <<t>>,
                           !.tasks[t].must_cancel =
                               lifecycle.tasks[t].state # "done"]
    /\ UNCHANGED beside_lifecycle

(* the awaited task has ended: stop() resumes, self._worker_task = None *)
LStopResume(c) ==
    /\ lifecycle.stopping[c] # <<>>
    /\ lifecycle.tasks[lifecycle.stopping[c][1]].state = "done"
    /\ lifecycle' = [lifecycle EXCEPT !.stopping[c] = <<>>,
                                      !.worker_task = <<>>]
    /\ UNCHANGED beside_lifecycle

LStop == \E c \in StopCallers : LStopBegin(c) \/ LStopResume(c)

(* put_nowait by a producer *)
LEnqueue ==
    /\ lifecycle.puts < MaxPending
    /\ lifecycle' = [lifecycle EXCEPT !.pending = @ + 1, !.puts = @ + 1]
    /\ UNCHANGED beside_lifecycle

(* queue.get() returns in a worker task, _process_item runs to a           *)
(* suspension (execute_action, the backoff sleep)                          *)
LTaskTake(t) ==
    /\ lifecycle.tasks[t].state = "waiting"
    /\ ~lifecycle.tasks[t].must_cancel
    /\ lifecycle.pending > 0
    /\ lifecycle' = [lifecycle EXCEPT !.pending = @ - 1,
                                      !.tasks[t].state = "processing"]
    /\ UNCHANGED beside_lifecycle

(* _process_item returns; finally: task_done; back to queue.get() *)
LTaskFinish(t) ==
    /\ lifecycle.tasks[t].state = "processing"
    /\ ~lifecycle.tasks[t].must_cancel
    /\ lifecycle' = [lifecycle EXCEPT !.task_done = @ + 1,
                                      !.tasks[t].state = "waiting"]
    /\ UNCHANGED beside_lifecycle

(* CancelledError is thrown into the task where it is suspended; inside    *)
(* _process_item the finally clause still calls task_done                  *)
LTaskCancelled(t) ==
    /\ lifecycle.tasks[t].state \in {"waiting", "processing"}
    /\ lifecycle.tasks[t].must_cancel
    /\ lifecycle' = [lifecycle EXCEPT
                        !.task_done = IF lifecycle.tasks[t].state = "processing"
                                      THEN @ + 1 ELSE @,
                        !.tasks[t].state = "done"]
    /\ UNCHANGED beside_lifecycle

LWorker == \E t \in TaskIds : LTaskTake(t) \/ LTaskFinish(t) \/ LTaskCancelled(t)

----------------------------------------------------------------------------
(* execute_action: the state of one call before it is made *)

GateIdle ==
    [pc |-> "idle", type |-> "none", replicas |-> <<>>, dry_run |-> FALSE,
     verify |-> FALSE, answer |-> "none", policy_calls |-> 0,
     runner_calls |-> 0, verify_calls |-> 0, exc |-> NoException,
     result |-> <<>>]

(* POST /signals/anomaly, POST /signals/rca: nothing received yet *)
IngestIdle ==
    [pc |-> "idle", kind |-> "none", windowId |-> 0, answer |-> "none",
     anomalies |-> <<>>, rcas |-> <<>>, policy_calls |-> 0, enqueued |-> <<>>,
     response |-> <<>>]

(* PolicyStore(policy_path) after __init__, no thread inside a call *)
MaxStoreThreads == 2

MaxStoreCalls == 2

StoreThreads == 1..MaxStoreThreads

ThreadIdle ==
    [pc |-> "idle", op |-> "none", calls |-> 0, text |-> <<>>,
     parsed |-> [is_list |-> TRUE, items |-> <<>>], error |-> <<>>,
     result |-> <<>>, got |-> <<>>, mutated |-> FALSE, read_seq |-> 0]

(* reads and installed_read are history: the number of reads of the policy *)
(* file so far, and the number of the read whose text self._policies was   *)
(* parsed from (0 for the empty list of __init__)                          *)
StoreIdle ==
    [file |-> [exists |-> FALSE, text |-> <<>>], policies |-> <<>>, lock |-> 0,
     th |-> [t \in StoreThreads |-> ThreadIdle], installed |-> { <<>> },
     reads |-> 0, installed_read |-> 0]

(* restarts is history: the service of the signal and the time of each     *)
(* restart the Evaluator has allowed; restarts_before and last_before are  *)
(* restarts and _last_restart_at as the latest call found them.            *)
(* The Evaluator of the Policy Engine before its first call.  Values of   *)
(* the DSL and of the signals are strings or numbers; numbers with a      *)
(* fraction are written in hundredths (0.85 is 85).                        *)
Str(s) == [t |-> "str", s |-> s, n |-> 0]

Num(n) == [t |-> "num", s |-> "", n |-> n]

NoSignal ==
    [kind |-> "none", service |-> "", type |-> Str(""), score |-> Num(0),
     rankedCauses |-> <<>>]

EvaluatorIdle ==
    [pc |-> "idle", policies |-> <<>>, signal |-> NoSignal, now |-> 0, at |-> 0,
     last_restart_at |-> <<>>, last_before |-> <<>>, plan |-> <<>>,
     reason |-> "none", chosen |-> <<>>, exc |-> NoException, evals |-> 0,
     restarts |-> {}, restarts_before |-> {}]

(* AuditLogger(log_path) after __init__: no log file yet, nothing read *)
AuditIdle ==
    [exists |-> FALSE, lines |-> <<>>, next |-> 1, reader |-> "none",
     limit |-> 0, events |-> <<>>]

(* runtime/guardrails.py before the first call of apply_guardrails: its   *)
(* _last_restart_at is empty.  allowed_at is history: the time of the      *)
(* latest restart that was allowed, by target key; blocked_in_row counts   *)
(* the restarts blocked since.                                             *)
GuardIdle ==
    [last_restart_at |-> <<>>, now |-> 0, plan |-> <<>>, allowed |-> FALSE,
     reason |-> "none", last_before |-> <<>>, allowed_at |-> <<>>,
     blocked_in_row |-> 0]

(* two evaluations side by side, neither started; the audit log; the      *)
(* guardrails of runtime/guardrails.py                                     *)
EngineIdle ==
    [twins |-> [one |-> EvaluatorIdle, two |-> EvaluatorIdle],
     audit |-> AuditIdle, guard |-> GuardIdle]

(* every component but the named one has not been called *)
IdleExcept(name) ==
    /\ IF name = "runner" THEN TRUE ELSE runner = RunnerIdle
    /\ IF name = "verifier" THEN TRUE ELSE verifier = VerifierIdle
    /\ IF name = "lifecycle" THEN TRUE ELSE lifecycle = LifecycleIdle
    /\ IF name = "gate" THEN TRUE ELSE gate = GateIdle
    /\ IF name = "ingest" THEN TRUE ELSE ingest = IngestIdle
    /\ IF name = "store" THEN TRUE ELSE store = StoreIdle
    /\ IF name = "evaluator" THEN TRUE ELSE evaluator = EvaluatorIdle
    /\ IF name = "engine" THEN TRUE ELSE engine = EngineIdle

----------------------------------------------------------------------------
(* State machine *)

InitReplicas == {3, 10}

(* The values of GUARDRAIL_MAX_ACTIONS_PER_HOUR the model is built with *)
HourlyCaps == {3, 5}
TickSet == {300, 3600}

(* What the latest step of the worker did: how the item left the step, the *)
(* reason label of the guardrail-block counter it incremented, the labels  *)
(* of the actions counter, and the exception execute_action raised.        *)
Event(step, reason, status, verification_status, exc) ==
    [step |-> step, reason |-> reason, status |-> status,
     verification_status |-> verification_status, exc |-> exc]

(* ClosedLoopManager.__init__ and the cluster it finds *)
ClosedLoopInit ==
    /\ clock = 0
    /\ maxsize \in {0, BoundedQueueSize}
    /\ max_actions_per_hour \in HourlyCaps
    /\ queue = <<>>
    /\ worker_task = FALSE
    /\ pc = "get"
    /\ cur = <<>>
    /\ last_action_at = <<>>
    /\ action_history = <<>>
    /\ scale_history = <<>>
    /\ replicas \in [{CanonicalName} -> InitReplicas]
    /\ next_id = 1
    /\ ticks = 0
    /\ submitted = <<>>
    /\ exec_count = [i \in 1..MaxSignals |-> 0]
    /\ first_replicas = [i \in 1..MaxSignals |-> <<>>]
    /\ last_success = <<>>
    /\ last_event = Event("init", "none", "none", "none", NoException)
    /\ unfinished_tasks = 0

Init ==
    /\ ClosedLoopInit
    /\ IdleExcept("none")

guardrail_state == <<last_action_at, action_history, scale_history>>
history_vars == <<submitted, exec_count, first_replicas, last_success>>

(* start(): creates the worker task unless there is one *)
Start ==
    /\ ~worker_task
    /\ worker_task' = TRUE
    /\ UNCHANGED <<clock, maxsize, max_actions_per_hour, queue, pc, cur,
                   guardrail_state, replicas, next_id, ticks, history_vars,
                   last_event, unfinished_tasks, components>>

(* stop(): cancels the worker task wherever it is suspended; an item in    *)
(* processing is abandoned (CancelledError passes the except clauses).     *)
(* A scale that execute_action was carrying out has reached the cluster or *)
(* has not.                                                                *)
Stop ==
    /\ worker_task
    /\ worker_task' = FALSE
    /\ pc' = "get"
    /\ cur' = <<>>
    /\ last_event' = IF cur = <<>> THEN last_event
                     ELSE Event("cancelled", "none", "none", "none", NoException)
    /\ IF pc = "execute" /\ cur[1].action_req.type = "scale"
       THEN replicas' \in { replicas,
                            [replicas EXCEPT ![cur[1].action_req.target.name] =
                                                  cur[1].action_req.scale[1]] }
       ELSE replicas' = replicas
    /\ unfinished_tasks' = IF cur = <<>> THEN unfinished_tasks
                           ELSE unfinished_tasks - 1
    /\ UNCHANGED <<clock, maxsize, max_actions_per_hour, queue,
                   guardrail_state, next_id, ticks, history_vars, components>>

(* put_nowait of a fresh QueueItem; dropped when the bounded queue is full *)
Enqueue(kind, signal) ==
    /\ next_id <= MaxSignals
    /\ next_id' = next_id + 1
    /\ queue' = IF QueueFull THEN queue
                ELSE put_nowait(queue, QueueItem(kind, signal, 0, clock, next_id))
    /\ unfinished_tasks' = IF QueueFull THEN unfinished_tasks
                           ELSE unfinished_tasks + 1
    /\ UNCHANGED <<clock, maxsize, max_actions_per_hour, worker_task, pc,
                   cur, guardrail_state, replicas, ticks, history_vars,
                   last_event, components>>

enqueue_anomaly == \E signal \in AnomalySignals : Enqueue("anomaly", signal)

enqueue_rca == \E signal \in RcaSignals : Enqueue("rca", signal)

(* Time passes while the worker waits on the empty queue (a waiting item   *)
(* is taken at once)                                                       *)
Tick ==
    /\ pc = "get"
    /\ queue = <<>>
    /\ ticks < MaxTicks
    /\ ticks' = ticks + 1
    /\ \E d \in TickSet : clock' = clock + d
    /\ UNCHANGED <<maxsize, max_actions_per_hour, queue, worker_task, pc,
                   cur, guardrail_state, replicas, next_id, history_vars,
                   last_event, unfinished_tasks, components>>

(* Mutant: the return after a guardrail block is missing *)
ProceedsUnlessCooldown(g) == g.verdict # "cooldown"

(* the early returns of _process_item after the guardrails: only a pass    *)
(* goes on to execute_action                                               *)
Proceeds(g) == g.verdict = "pass"

(* _worker takes the next item and _process_item runs up to its first      *)
(* suspension: mapping, cooldown, guardrails, and the call of              *)
(* execute_action when nothing stops the item.                             *)
ProcessItem ==
    /\ worker_task
    /\ pc = "get"
    /\ queue # <<>>
    /\ \E ok1 \in BOOLEAN, ok2 \in BOOLEAN :
        LET item == Head(queue)
            mapped == MapItem(item, ok1)
            now == clock
        IN  /\ queue' = Tail(queue)
            /\ IF mapped = <<>>
               THEN /\ last_event' = Event("no_action", "none", "none", "none", NoException)
                    /\ UNCHANGED <<pc, cur, action_history, scale_history,
                                   submitted, exec_count, first_replicas>>
               ELSE
               LET action_req == mapped[1]
                   key == KeyOf(action_req)
                   g == Guardrails(action_req, now, ok2)
               IN  /\ action_history' = g.action_history
                   /\ scale_history' = g.scale_history
                   /\ IF Proceeds(g)
                      THEN /\ pc' = "execute"
                           /\ cur' = << [item |-> item, action_req |-> action_req,
                                         now |-> now,
                                         history_before |->
                                             DictGet(action_history, key, <<>>)] >>
                           /\ submitted' = DictSet(submitted, key,
                                              Append(DictGet(submitted, key, <<>>), now))
                           /\ exec_count' = [exec_count EXCEPT ![item.id] = @ + 1]
                           /\ first_replicas' =
                                IF action_req.type = "scale" /\ first_replicas[item.id] = <<>>
                                THEN [first_replicas EXCEPT ![item.id] =
                                        << replicas[action_req.target.name] >>]
                                ELSE first_replicas
                           /\ last_event' = Event("submitted", g.reason, "none", "none",
                                                  NoException)
                      ELSE /\ last_event' =
                                Event(IF g.verdict = "cooldown" THEN "cooldown_skipped"
                                      ELSE "guardrail_blocked",
                                      g.reason, "none", "none", NoException)
                           /\ UNCHANGED <<pc, cur, submitted, exec_count, first_replicas>>
    /\ unfinished_tasks' = IF pc' = "get" THEN unfinished_tasks - 1
                           ELSE unfinished_tasks
    /\ UNCHANGED <<clock, maxsize, max_actions_per_hour, worker_task,
                   last_action_at, replicas, next_id, ticks, last_success,
                   components>>

(* execute_action returns or raises; _process_item runs on to its end or   *)
(* to the backoff sleep.                                                   *)
WorkerHandles(outcome) ==
    /\ worker_task
    /\ pc = "execute"
    /\ LET item == cur[1].item
            action_req == cur[1].action_req
            key == KeyOf(action_req)
            retry_allowed == IF outcome.raised THEN TRUE
                             ELSE RetryAllowed(outcome.verification)
            label == IF outcome.raised THEN "EXCEPTION" ELSE outcome.verification
        IN  /\ replicas' = IF outcome.applied /\ action_req.type = "scale"
                           THEN [replicas EXCEPT ![action_req.target.name] =
                                                     action_req.scale[1]]
                           ELSE replicas
            /\ last_success' = IF ~outcome.raised /\ outcome.verification = "SUCCESS"
                               THEN DictSet(last_success, key,
                                            [at |-> cur[1].now,
                                             n |-> Len(submitted[key])])
                               ELSE last_success
            /\ IF ~outcome.raised /\ VerifiedSuccess(outcome)
               THEN /\ last_action_at' = DictSet(last_action_at, key, cur[1].now)
                    /\ pc' = "get"
                    /\ cur' = <<>>
                    /\ last_event' = Event("success", "none", "success", label,
                                           outcome.exc)
               ELSE IF outcome.raised /\ is_guardrail_exception(outcome.exc)
               THEN /\ pc' = "get"
                    /\ cur' = <<>>
                    /\ last_event' = Event("guardrail_exception",
                                           "replica_guardrail_http_exception",
                                           "failed", "GUARDRAIL_BLOCKED", outcome.exc)
                    /\ UNCHANGED last_action_at
               ELSE IF RetryDue(retry_allowed, item)
               THEN /\ pc' = "sleep"
                    /\ cur' = cur
                    /\ last_event' = Event("retry_scheduled", "none",
                                           IF outcome.raised THEN "exception" ELSE "none",
                                           label, outcome.exc)
                    /\ UNCHANGED last_action_at
               ELSE /\ pc' = "get"
                    /\ cur' = <<>>
                    /\ last_event' = Event("terminal_failure", "none", "failed", label,
                                           outcome.exc)
                    /\ UNCHANGED last_action_at
    /\ unfinished_tasks' = IF pc' = "get" THEN unfinished_tasks - 1
                           ELSE unfinished_tasks
    /\ UNCHANGED <<clock, maxsize, max_actions_per_hour, queue, worker_task,
                   action_history, scale_history, next_id, ticks, submitted,
                   exec_count, first_replicas, components>>

ExecuteReturns ==
    /\ pc = "execute"
    /\ \E outcome \in ExecuteOutcomes(cur[1].action_req) : WorkerHandles(outcome)

(* asyncio.sleep(delay) is over: the retry item is put, or dropped when    *)
(* the bounded queue is full; _process_item returns and the worker's       *)
(* finally clause calls task_done for the item it had taken.               *)
BackoffDone ==
    /\ worker_task
    /\ pc = "sleep"
    /\ clock' = clock + RetryDelay(cur[1].item)
    /\ queue' = IF QueueFull THEN queue ELSE put_nowait(queue, RetryItem(cur[1].item))
    /\ last_event' = Event(IF QueueFull THEN "retry_dropped" ELSE "retry_enqueued",
                           "none", "none", last_event.verification_status,
                           last_event.exc)
    /\ pc' = "get"
    /\ cur' = <<>>
    /\ unfinished_tasks' = IF QueueFull THEN unfinished_tasks - 1
                           ELSE unfinished_tasks
    /\ UNCHANGED <<maxsize, max_actions_per_hour, worker_task,
                   guardrail_state, replicas, next_id, ticks, history_vars,
                   components>>

Next ==
    \/ Start
    \/ Stop
    \/ enqueue_anomaly
    \/ enqueue_rca
    \/ Tick
    \/ ProcessItem
    \/ ExecuteReturns
    \/ BackoffDone

Spec == Init /\ [][Next]_vars

----------------------------------------------------------------------------
(* The components on their own: the closed loop is at rest *)

ClosedLoopAtRest ==
    /\ ClosedLoopInit
    /\ maxsize = 0
    /\ max_actions_per_hour = 5
    /\ \A d \in DOMAIN replicas : replicas[d] = 3

InitRunner ==
    /\ ClosedLoopAtRest
    /\ runner \in RunnerCalls
    /\ IdleExcept("runner")

NextRunner == RunnerEnter \/ RunnerAttempt \/ RunnerBackoffDone

SpecRunner == InitRunner /\ [][NextRunner]_vars

InitVerify ==
    /\ ClosedLoopAtRest
    /\ verifier \in VerifierCalls
    /\ IdleExcept("verifier")

NextVerify == VerifyEnter \/ RolloutPoll \/ RolloutSleepDone

SpecVerify == InitVerify /\ [][NextVerify]_vars

InitLifecycle ==
    /\ ClosedLoopAtRest
    /\ lifecycle = LifecycleIdle
    /\ IdleExcept("lifecycle")

NextLifecycle == LStart \/ LStop \/ LEnqueue \/ LWorker

SpecLifecycle == InitLifecycle /\ [][NextLifecycle]_vars

----------------------------------------------------------------------------
(* Progress: the closed loop without stop(), the runner and the            *)
(* verification, one of them at work in a behaviour.  The event loop runs  *)
(* the worker task whenever it can take a step, sleeps end, and the calls  *)
(* into the cluster and the Policy Engine return.  The clock moves with    *)
(* the backoff sleeps only.                                                *)

(* Mutant: the worker only catches HTTPException *)
CaughtByWorkerHTTPOnly(exc) == exc.cls = "HTTPException"

(* except Exception in _worker: every exception class but the             *)
(* BaseExceptions                                                          *)
CaughtByWorker(exc) == exc.cls \notin {"CancelledError", "KeyboardInterrupt"}

(* What can escape _process_item: its calls outside the try around         *)
(* execute_action (the cluster client, tracing, metrics) raising           *)
InstrumentationError ==
    [cls |-> "Exception", status_code |-> 0, detail |-> <<"tracing">>]

EscapingExceptions == {ClusterError, InstrumentationError}

(* _worker takes an item and _process_item raises before it changes        *)
(* anything: logged by the except clause, task_done in the finally clause; *)
(* an exception the clause does not catch ends the worker task.            *)
ItemProcessingRaises ==
    /\ worker_task
    /\ pc = "get"
    /\ queue # <<>>
    /\ queue' = Tail(queue)
    /\ unfinished_tasks' = unfinished_tasks - 1
    /\ \E exc \in EscapingExceptions :
        /\ pc' = IF CaughtByWorker(exc) THEN "get" ELSE "crashed"
        /\ last_event' = Event(IF CaughtByWorker(exc) THEN "unhandled_error"
                               ELSE "worker_crashed",
                               "none", "exception", "none", exc)
    /\ UNCHANGED <<clock, maxsize, max_actions_per_hour, worker_task, cur,
                   guardrail_state, replicas, next_id, ticks, history_vars,
                   components>>

ComponentsIdle == IdleExcept("none")

(* The closed loop of the scenario: the workload at 3 replicas, the lower  *)
(* hourly cap                                                              *)
InitClosedLoopLive ==
    /\ Init
    /\ max_actions_per_hour = 3
    /\ \A d \in DOMAIN replicas : replicas[d] = 3

InitLive == InitClosedLoopLive \/ InitRunner \/ InitVerify

WorkerProgress ==
    ComponentsIdle /\ (Start \/ ProcessItem \/ ExecuteReturns \/ BackoffDone)

NextLive ==
    \/ ComponentsIdle /\ Start
    \/ ComponentsIdle /\ enqueue_anomaly
    \/ ComponentsIdle /\ enqueue_rca
    \/ ComponentsIdle /\ ProcessItem
    \/ ComponentsIdle /\ ItemProcessingRaises
    \/ ComponentsIdle /\ ExecuteReturns
    \/ ComponentsIdle /\ BackoffDone
    \/ NextRunner
    \/ NextVerify

SpecLive ==
    /\ InitLive
    /\ [][NextLive]_vars
    /\ WF_vars(WorkerProgress)
    /\ WF_vars(NextRunner)
    /\ WF_vars(NextVerify)

----------------------------------------------------------------------------
(* The closed loop on the execute_action of this repository, up to its     *)
(* policy gate for the requests the closed loop builds (dry_run = False)   *)

(* What the Policy Engine answers to POST /v1/policy/evaluate *)
PolicyEngineAnswers ==
    {"action", "blocked", "no_action", "unreachable", "http_error", "non_json",
     "unexpected"}

(* check_policy: a PolicyDecision, or PolicyDecisionError (the engine is   *)
(* unreachable, answers with a status >= 400, with something that is not   *)
(* JSON, or with a decision it does not know)                              *)
check_policy(answer) ==
    CASE answer = "action" -> [error |-> FALSE, decision |-> "allow"]
      [] answer \in {"blocked", "no_action"} -> [error |-> FALSE, decision |-> "deny"]
      [] OTHER -> [error |-> TRUE, decision |-> "none"]

(* PolicyDecisionError turned into HTTPException(502) *)
PolicyEngineError == HTTPException(502, <<"Policy", "Engine", "error">>)

(* decision.get(...) on the PolicyDecision dataclass *)
AttributeError ==
    [cls |-> "AttributeError", status_code |-> 0,
     detail |-> <<"PolicyDecision", "object", "has", "no", "attribute", "get">>]

execute_action(action_req, answer) ==
    IF ~action_req.dry_run
    THEN IF check_policy(answer).error
         THEN { Raised(PolicyEngineError, FALSE) }
         ELSE { Raised(AttributeError, FALSE) }
    ELSE IF action_req.type = "scale"
            /\ enforce_scale_guardrails(action_req.scale[1]) # <<>>
    THEN { Raised(HTTPException(400, enforce_scale_guardrails(action_req.scale[1])),
                  FALSE) }
    ELSE { [Returned(TRUE, "NONE") EXCEPT !.applied = FALSE] }

ExecuteActionReturns ==
    /\ pc = "execute"
    /\ \E answer \in PolicyEngineAnswers :
         \E outcome \in execute_action(cur[1].action_req, answer) :
            WorkerHandles(outcome)

InitEndToEnd ==
    /\ Init
    /\ \A d \in DOMAIN replicas : replicas[d] = 3

NextEndToEnd ==
    \/ Start
    \/ Stop
    \/ enqueue_anomaly
    \/ enqueue_rca
    \/ Tick
    \/ ProcessItem
    \/ ExecuteActionReturns
    \/ BackoffDone

SpecEndToEnd == InitEndToEnd /\ [][NextEndToEnd]_vars

----------------------------------------------------------------------------
(* execute_action, one call: the policy gate, then the Action Runner and   *)
(* the verification of the rollout                                         *)

(* ActionRequest: type, scale.replicas (<<>> when the type is not scale),  *)
(* dry_run, verify; and what the Policy Engine will answer                 *)
GateCalls ==
    { [GateIdle EXCEPT !.pc = "enter", !.type = r[1], !.replicas = r[2],
                       !.dry_run = d, !.verify = v, !.answer = a] :
        r \in { <<"scale", <<0>> >>, <<"scale", <<4>> >>, <<"scale", <<11>> >>,
                <<"restart", <<>> >>, <<"patch", <<>> >> },
        d \in BOOLEAN, v \in BOOLEAN, a \in PolicyEngineAnswers }

GateRaises(g, exc) == [g EXCEPT !.pc = "raised", !.exc = exc]

(* if not req.dry_run: the policy gate.  decision.get is called on the     *)
(* PolicyDecision dataclass, which has no such attribute.                  *)
GateEnter ==
    /\ gate.pc = "enter"
    /\ gate' =
         IF ~gate.dry_run
         THEN LET g == [gate EXCEPT !.policy_calls = @ + 1]
                  d == check_policy(g.answer)
              IN  IF d.error THEN GateRaises(g, PolicyEngineError)
                  ELSE GateRaises(g, AttributeError)
         ELSE [gate EXCEPT !.pc = "run"]
    /\ UNCHANGED beside_gate

(* What action_runner.run reports for the request: its status, and whether *)
(* it called the action function                                           *)
GateRunnerResults(g) ==
    IF g.type = "scale" /\ enforce_scale_guardrails(g.replicas[1]) # <<>>
    THEN { [status |-> "failed", called |-> FALSE,
            error |-> enforce_scale_guardrails(g.replicas[1])] }
    ELSE IF g.dry_run
    THEN { [status |-> "dry_run", called |-> FALSE, error |-> <<>>] }
    ELSE { [status |-> "success", called |-> TRUE, error |-> <<>>],
           [status |-> "failed", called |-> TRUE, error |-> <<"timeout">>] }

(* _is_guardrail_error(result) *)
is_guardrail_error(result) ==
    /\ result.status = "failed"
    /\ result.error # <<>>
    /\ Len(result.error) >= 3
    /\ SubSeq(result.error, 1, 3) = <<"Replica", "guardrail", "violated">>

(* The branch of the request's type: action_runner.run, the errors made of *)
(* its result, the verification when req.verify and not req.dry_run, the   *)
(* ActionResult                                                            *)
GateRun ==
    /\ gate.pc = "run"
    /\ \E result \in GateRunnerResults(gate) :
        LET g == [gate EXCEPT !.runner_calls = IF result.called THEN @ + 1 ELSE @]
        IN  IF g.type = "scale" /\ is_guardrail_error(result)
            THEN gate' = GateRaises(g, HTTPException(400, result.error))
            ELSE IF result.status = "failed"
            THEN gate' = GateRaises(g, HTTPException(500,
                                          <<"Failed", "action">> \o result.error))
            ELSE IF g.verify /\ ~g.dry_run
            THEN \E v \in {"SUCCESS", "FAILED", "TIMED_OUT"} :
                    gate' = [g EXCEPT !.pc = "returned", !.verify_calls = @ + 1,
                                      !.result = << [success |-> TRUE,
                                                     verification |-> v] >>]
            ELSE gate' = [g EXCEPT !.pc = "returned",
                                   !.result = << [success |-> TRUE,
                                                  verification |-> "NONE"] >>]
    /\ UNCHANGED beside_gate

InitGate ==
    /\ ClosedLoopAtRest
    /\ gate \in GateCalls
    /\ IdleExcept("gate")

NextGate == GateEnter \/ GateRun

SpecGate == InitGate /\ [][NextGate]_vars

----------------------------------------------------------------------------
(* The ingestion endpoints of signals_router.py *)

MaxRequests == 3

MAX_SIGNALS == 200

(* deque(maxlen=_MAX_SIGNALS).append *)
deque_append(d, x) ==
    IF Len(d) < MAX_SIGNALS THEN Append(d, x) ELSE Append(Tail(d), x)

(* ActionRequest(type=..., target=...): both fields are required and not   *)
(* Optional, so pydantic refuses None with a ValidationError               *)
ActionRequestValidates(type, target) == type # "None" /\ target # "None"

ValidationError ==
    [cls |-> "ValidationError", status_code |-> 0,
     detail |-> <<"2", "validation", "errors", "for", "ActionRequest">>]

Accepted(policy) == [status_code |-> 202, accepted |-> TRUE, policy |-> policy]

(* raise HTTPException(status_code=500, detail=f"Error processing ...") *)
IngestFailed(exc) == [status_code |-> 500, accepted |-> FALSE, policy |-> exc.cls]

(* A request arrives: the signal, and what the Policy Engine would answer *)
IngestRequest ==
    /\ ingest.pc \in {"idle", "done"}
    /\ Len(ingest.anomalies) + Len(ingest.rcas) < MaxRequests
    /\ \E k \in {"anomaly", "rca"}, a \in PolicyEngineAnswers :
         ingest' = [ingest EXCEPT !.pc = "store", !.kind = k, !.answer = a,
                                  !.windowId = @ + 1, !.response = <<>>]
    /\ UNCHANGED beside_ingest

(* 1) add_anomaly(signal) / add_rca(signal) *)
IngestStore ==
    /\ ingest.pc = "store"
    /\ ingest' =
         IF ingest.kind = "anomaly"
         THEN [ingest EXCEPT !.pc = "gate",
                             !.anomalies = deque_append(@, ingest.windowId)]
         ELSE [ingest EXCEPT !.pc = "gate",
                             !.rcas = deque_append(@, ingest.windowId)]
    /\ UNCHANGED beside_ingest

(* 2) the policy gate: dummy_action = ActionRequest(type=None, target=None, *)
(* ...), check_policy, 3) enqueue when allowed; the handlers of            *)
(* PolicyDecisionError (accepted, policy error) and of Exception (500)     *)
IngestGate ==
    /\ ingest.pc = "gate"
    /\ ingest' =
         IF ~ActionRequestValidates("None", "None")
         THEN [ingest EXCEPT !.pc = "done",
                             !.response = << IngestFailed(ValidationError) >>]
         ELSE LET i == [ingest EXCEPT !.policy_calls = @ + 1]
                  d == check_policy(i.answer)
              IN  IF d.error
                  THEN [i EXCEPT !.pc = "done", !.response = << Accepted("error") >>]
                  ELSE IF d.decision = "allow"
                  THEN [i EXCEPT !.pc = "done",
                                 !.enqueued = Append(@, <<i.kind, i.windowId>>),
                                 !.response = << Accepted("none") >>]
                  ELSE [i EXCEPT !.pc = "done", !.response = << Accepted("none") >>]
    /\ UNCHANGED beside_ingest

InitIngest ==
    /\ ClosedLoopAtRest
    /\ ingest = IngestIdle
    /\ IdleExcept("ingest")

NextIngest == IngestRequest \/ IngestStore \/ IngestGate

SpecIngest == InitIngest /\ [][NextIngest]_vars

----------------------------------------------------------------------------
(* PolicyStore (policy_engine/runtime/policy_store.py) and the DSL parser   *)

(* What the policy file can hold: nothing, text that is not DSL, one       *)
(* policy, several policies (a policy is written by its name)              *)
PolicyTexts ==
    { <<>>, <<"garbage">>, <<"P1">>, <<"P1", "P2">>, <<"P3", "P1", "P2">> }

FileStates ==
    { [exists |-> FALSE, text |-> <<>>] } \cup
    { [exists |-> TRUE, text |-> x] : x \in PolicyTexts }

(* parse_policies(text): the grammar is "?start: policy+", so Lark raises  *)
(* on text without a policy or with anything else in it, hands back the    *)
(* single Policy itself (start is inlined) when there is exactly one, and  *)
(* the list of the policies otherwise                                      *)
parse_policies(text) ==
    IF text = <<>> \/ \E n \in 1..Len(text) : text[n] = "garbage"
    THEN [raised |-> TRUE, is_list |-> FALSE, items |-> <<>>]
    ELSE IF Len(text) = 1
    THEN [raised |-> FALSE, is_list |-> FALSE, items |-> text]
    ELSE [raised |-> FALSE, is_list |-> TRUE, items |-> text]

ReloadResult(ok, policy_count, error) ==
    [ok |-> ok, policy_count |-> policy_count, error |-> error]

(* Mutant: get_policies hands out self._policies itself *)
list_alias(l) == [alias |-> TRUE, items |-> l]

(* list(self._policies): a new list object with the same items *)
list_copy(l) == [alias |-> FALSE, items |-> l]

(* Mutant: a failed reload reports no policies *)
len_nothing(l) == 0

(* len(self.get_policies()) *)
len(l) == Len(l)

Thread(t) == store.th[t]

SetThread(t, th) == [store EXCEPT !.th[t] = th]

(* except Exception as e / file not found: the thread goes on to           *)
(* self.get_policies() for the count of its ReloadResult                   *)
ReloadFails(t, error) ==
    [Thread(t) EXCEPT !.pc = "get_lock", !.error = error]

(* a thread calls reload() or get_policies() *)
StoreCall(t) ==
    /\ Thread(t).pc = "idle"
    /\ Thread(t).calls < MaxStoreCalls
    /\ \E op \in {"reload", "get"} :
         store' = SetThread(t, [ThreadIdle EXCEPT
                                   !.pc = IF op = "reload" THEN "exists" ELSE "get_lock",
                                   !.op = op, !.calls = Thread(t).calls + 1])
    /\ UNCHANGED beside_store

(* if not os.path.exists(self._policy_path) *)
ReloadExists(t) ==
    /\ Thread(t).pc = "exists"
    /\ store' = SetThread(t,
         IF ~store.file.exists
         THEN ReloadFails(t, <<"Policy", "file", "not", "found">>)
         ELSE [Thread(t) EXCEPT !.pc = "open"])
    /\ UNCHANGED beside_store

(* with open(...) as f: text = f.read() *)
ReloadRead(t) ==
    /\ Thread(t).pc = "open"
    /\ store' =
         IF ~store.file.exists
         THEN SetThread(t, ReloadFails(t, <<"FileNotFoundError">>))
         ELSE [SetThread(t, [Thread(t) EXCEPT !.pc = "parse",
                                              !.text = store.file.text,
                                              !.read_seq = store.reads + 1])
                 EXCEPT !.reads = @ + 1]
    /\ UNCHANGED beside_store

(* new_policies = parse_policies(text) *)
ReloadParse(t) ==
    /\ Thread(t).pc = "parse"
    /\ LET r == parse_policies(Thread(t).text)
       IN  store' = SetThread(t,
             IF r.raised
             THEN ReloadFails(t, <<"UnexpectedInput">>)
             ELSE [Thread(t) EXCEPT !.pc = "swap_lock",
                                    !.parsed = [is_list |-> r.is_list,
                                                items |-> r.items]])
    /\ UNCHANGED beside_store

(* with self._lock: (reload) *)
ReloadLock(t) ==
    /\ Thread(t).pc = "swap_lock"
    /\ store.lock = 0
    /\ store' = [SetThread(t, [Thread(t) EXCEPT !.pc = "swap"]) EXCEPT !.lock = t]
    /\ UNCHANGED beside_store

(* a list the store no longer holds stays with the callers that have it *)
Detached(th) ==
    [t \in StoreThreads |->
        IF th[t].got # <<>> /\ th[t].got[1].alias
        THEN [th[t] EXCEPT !.got = << [alias |-> FALSE, items |-> th[t].got[1].items] >>]
        ELSE th[t]]

(* self._policies = list(new_policies), the lock released, and             *)
(* return ReloadResult(ok=True, policy_count=len(new_policies), ...);      *)
(* list() of a single Policy raises TypeError                              *)
ReloadSwap(t) ==
    /\ Thread(t).pc = "swap"
    /\ LET new_policies == Thread(t).parsed
       IN  IF ~new_policies.is_list
           THEN store' = [SetThread(t, ReloadFails(t,
                              <<"Policy", "object", "is", "not", "iterable">>))
                            EXCEPT !.lock = 0]
           ELSE store' =
                  [store EXCEPT
                     !.lock = 0,
                     !.policies = new_policies.items,
                     !.installed = @ \cup { new_policies.items },
                     !.installed_read = Thread(t).read_seq,
                     !.th = [Detached(store.th) EXCEPT
                               ![t].pc = "done",
                               ![t].result = << ReloadResult(TRUE,
                                                  Len(new_policies.items), <<>>) >>]]
    /\ UNCHANGED beside_store

(* with self._lock: (get_policies) *)
GetLock(t) ==
    /\ Thread(t).pc = "get_lock"
    /\ store.lock = 0
    /\ store' = [SetThread(t, [Thread(t) EXCEPT !.pc = "get_copy"]) EXCEPT !.lock = t]
    /\ UNCHANGED beside_store

(* return list(self._policies), the lock released: to the caller of        *)
(* get_policies, or to reload for its ReloadResult(ok=False, ...)          *)
GetCopy(t) ==
    /\ Thread(t).pc = "get_copy"
    /\ LET l == list_copy(store.policies)
       IN  store' =
             [SetThread(t,
                IF Thread(t).op = "get"
                THEN [Thread(t) EXCEPT !.pc = "done", !.got = << l >>]
                ELSE [Thread(t) EXCEPT !.pc = "done",
                        !.result = << ReloadResult(FALSE, len(l.items),
                                                   Thread(t).error) >>])
              EXCEPT !.lock = 0]
    /\ UNCHANGED beside_store

(* the caller of get_policies appends to the list it was given *)
CallerMutates(t) ==
    /\ Thread(t).pc = "done"
    /\ Thread(t).got # <<>>
    /\ ~Thread(t).mutated
    /\ LET l == Thread(t).got[1]
           m == Append(l.items, "mine")
       IN  IF l.alias
           THEN store' =
                  [store EXCEPT
                     !.policies = m,
                     !.th = [u \in StoreThreads |->
                               IF store.th[u].got # <<>> /\ store.th[u].got[1].alias
                               THEN [store.th[u] EXCEPT
                                       !.got = << [alias |-> TRUE, items |-> m] >>,
                                       !.mutated = IF u = t THEN TRUE ELSE @]
                               ELSE store.th[u]]]
           ELSE store' = SetThread(t, [Thread(t) EXCEPT
                                         !.got = << [alias |-> FALSE, items |-> m] >>,
                                         !.mutated = TRUE])
    /\ UNCHANGED beside_store

(* the call is over; the thread may make another *)
StoreReturn(t) ==
    /\ Thread(t).pc = "done"
    /\ store' = SetThread(t, [ThreadIdle EXCEPT !.calls = Thread(t).calls])
    /\ UNCHANGED beside_store

(* somebody writes, replaces or removes the policy file *)
FileChange ==
    /\ \E f \in FileStates : f # store.file /\ store' = [store EXCEPT !.file = f]
    /\ UNCHANGED beside_store

InitStore ==
    /\ ClosedLoopAtRest
    /\ store = StoreIdle
    /\ IdleExcept("store")

NextStore ==
    \/ FileChange
    \/ \E t \in StoreThreads :
         \/ StoreCall(t)
         \/ ReloadExists(t)
         \/ ReloadRead(t)
         \/ ReloadParse(t)
         \/ ReloadLock(t)
         \/ ReloadSwap(t)
         \/ GetLock(t)
         \/ GetCopy(t)
         \/ CallerMutates(t)
         \/ StoreReturn(t)

SpecStore == InitStore /\ [][NextStore]_vars

----------------------------------------------------------------------------
(* The Evaluator (policy_engine/runtime/evaluator.py) on the policies of   *)
(* the DSL (policy_engine/dsl/model.py, parser.py)                         *)

MIN_REPLICAS == 1

MAX_REPLICAS == 10

RESTART_COOLDOWN_SECONDS == 120

MaxPolicies == 2

MaxEvals == 2

MaxEvalClock == 240

EvalClockStep == 60

Max(a, b) == IF a > b THEN a ELSE b

Condition(field, op, value) == [field |-> field, op |-> op, value |-> value]

Action(kind, scale_replicas) == [kind |-> kind, scale_replicas |-> scale_replicas]

(* dsl.model.Policy: name, conditions, action, and no other attribute *)
Policy(name, conditions, action) ==
    [name |-> name, conditions |-> conditions, action |-> action]

(* Policies the parser accepts: FIELD COMPARE value pairs any field with   *)
(* any comparison and any string or number                                 *)
PolicyCatalogue ==
    { Policy("restart_on_latency",
             << Condition("anomaly.type", "==", Str("latency")) >>,
             Action("restart", <<>>)),
      Policy("restart_on_high_latency",
             << Condition("anomaly.type", "==", Str("latency")),
                Condition("anomaly.score", ">", Num(85)) >>,
             Action("restart", <<>>)),
      Policy("scale_on_cpu_saturation",
             << Condition("rca.cause", "==", Str("cpu_saturation")) >>,
             Action("scale", <<6>>)),
      Policy("scale_far_on_cpu_saturation",
             << Condition("rca.cause", "==", Str("cpu_saturation")),
                Condition("rca.probability", ">=", Num(50)) >>,
             Action("scale", <<99>>)),
      Policy("scale_to_zero_on_memory_leak",
             << Condition("rca.cause", "==", Str("memory_leak")) >>,
             Action("scale", <<0>>)),
      Policy("restart_on_high_score",
             << Condition("anomaly.score", ">", Str("0.85")) >>,
             Action("restart", <<>>)),
      Policy("restart_on_latency_from_cpu",
             << Condition("anomaly.type", "==", Str("latency")),
                Condition("rca.cause", "==", Str("cpu_saturation")) >>,
             Action("restart", <<>>)) }

RECURSIVE PolicyListsOfLen(_)
PolicyListsOfLen(n) ==
    IF n = 0 THEN { <<>> }
    ELSE { Append(l, q) : l \in PolicyListsOfLen(n - 1), q \in PolicyCatalogue }

Distinct(l) == \A i, j \in 1..Len(l) : i # j => l[i] # l[j]

PolicyLists ==
    { l \in UNION { PolicyListsOfLen(n) : n \in 0..MaxPolicies } : Distinct(l) }

AnomalySignal(type, score) ==
    [kind |-> "anomaly", service |-> "erp-simulator", type |-> Str(type),
     score |-> Num(score), rankedCauses |-> <<>>]

RcaSignal(rankedCauses) ==
    [kind |-> "rca", service |-> "erp-simulator", type |-> Str(""), score |-> Num(0),
     rankedCauses |-> rankedCauses]

(* the same signal reported for another service *)
OfService(signal, service) == [signal EXCEPT !.service = service]

RankedCause(cause, probability) ==
    [cause |-> Str(cause), probability |-> Num(probability)]

Signals ==
    { AnomalySignal("latency", 90), AnomalySignal("error", 50),
      RcaSignal(<< RankedCause("cpu_saturation", 92) >>),
      RcaSignal(<< RankedCause("memory_leak", 40) >>),
      RcaSignal(<<>>),
      OfService(AnomalySignal("latency", 90), "payments") }

(* _get_field_value_from_signal: <<>> is None *)
get_field_value_from_signal(field, signal) ==
    CASE field = "anomaly.type" ->
            IF signal.kind = "anomaly" THEN << signal.type >> ELSE <<>>
      [] field = "anomaly.score" ->
            IF signal.kind = "anomaly" THEN << signal.score >> ELSE <<>>
      [] field = "rca.cause" ->
            IF signal.kind = "rca" /\ signal.rankedCauses # <<>>
            THEN << signal.rankedCauses[1].cause >> ELSE <<>>
      [] field = "rca.probability" ->
            IF signal.kind = "rca" /\ signal.rankedCauses # <<>>
            THEN << signal.rankedCauses[1].probability >> ELSE <<>>
      [] OTHER -> <<>>

(* the order of Python's strings, on the strings of the model *)
StrRank(x) ==
    CASE x = "" -> 0
      [] x = "0.85" -> 1
      [] x = "cpu_saturation" -> 2
      [] x = "error" -> 3
      [] x = "latency" -> 4
      [] x = "memory_leak" -> 5
      [] OTHER -> 6

Ordered(op, a, b) ==
    CASE op = ">" -> a > b
      [] op = "<" -> a < b
      [] op = ">=" -> a >= b
      [] op = "<=" -> a <= b
      [] OTHER -> FALSE

(* Mutant: a field without a value equals anything *)
compare_none_equal(op, left, right) ==
    IF left = <<>> THEN (IF op = "==" THEN "true" ELSE "false")
    ELSE IF op = "==" THEN (IF left[1] = right THEN "true" ELSE "false")
    ELSE IF op \notin {">", "<", ">=", "<="} THEN "false"
    ELSE IF left[1].t # right.t THEN "TypeError"
    ELSE IF left[1].t = "num"
         THEN (IF Ordered(op, left[1].n, right.n) THEN "true" ELSE "false")
         ELSE (IF Ordered(op, StrRank(left[1].s), StrRank(right.s))
               THEN "true" ELSE "false")

(* _compare(op, left, right): "true", "false", or "TypeError" when an      *)
(* ordering is asked between a string and a number                         *)
compare(op, left, right) ==
    IF left = <<>> THEN "false"
    ELSE IF op = "==" THEN (IF left[1] = right THEN "true" ELSE "false")
    ELSE IF op \notin {">", "<", ">=", "<="} THEN "false"
    ELSE IF left[1].t # right.t THEN "TypeError"
    ELSE IF left[1].t = "num"
         THEN (IF Ordered(op, left[1].n, right.n) THEN "true" ELSE "false")
         ELSE (IF Ordered(op, StrRank(left[1].s), StrRank(right.s))
               THEN "true" ELSE "false")

(* _policy_matches: the conditions in order, up to the first that fails *)
RECURSIVE conditions_hold(_, _)
conditions_hold(conditions, signal) ==
    IF conditions = <<>> THEN "true"
    ELSE LET cond == Head(conditions)
             c == compare(cond.op, get_field_value_from_signal(cond.field, signal),
                          cond.value)
         IN  IF c = "true" THEN conditions_hold(Tail(conditions), signal) ELSE c

policy_matches(policy, signal) == conditions_hold(policy.conditions, signal)

(* runtime/engine.py: the matching over the two dicts of a request.  A     *)
(* dict is a function from its keys; dict.get gives None (<<>>) for a key  *)
(* that is not there.                                                      *)
dict_get(d, key) == IF key \in DOMAIN d THEN << d[key] >> ELSE <<>>

AnomalyDicts ==
    { <<>>, [type |-> Str("latency")],
      [type |-> Str("latency"), score |-> Num(90)] }

RcaDicts ==
    { <<>>, [cause |-> Str("cpu_saturation")],
      [cause |-> Str("cpu_saturation"), probability |-> Num(92)] }

(* cond.field.split(".", 1)[1] *)
FieldKey(field) ==
    CASE field = "anomaly.type" -> "type"
      [] field = "anomaly.score" -> "score"
      [] field = "rca.cause" -> "cause"
      [] field = "rca.probability" -> "probability"
      [] OTHER -> ""

(* engine._compare(left, op, right): left == right for "==", where right   *)
(* is the string or number of the policy and never None; an ordering only  *)
(* when left is not None                                                   *)
engine_compare(left, op, right) ==
    IF op = "==" THEN (IF left = << right >> THEN "true" ELSE "false")
    ELSE IF op \notin {">", "<", ">=", "<="} THEN "false"
    ELSE IF left = <<>> THEN "false"
    ELSE IF left[1].t # right.t THEN "TypeError"
    ELSE IF left[1].t = "num"
         THEN (IF Ordered(op, left[1].n, right.n) THEN "true" ELSE "false")
         ELSE (IF Ordered(op, StrRank(left[1].s), StrRank(right.s))
               THEN "true" ELSE "false")

(* engine._policy_matches(policy, anomaly, rca) *)
RECURSIVE engine_conditions_hold(_, _, _)
engine_conditions_hold(conditions, anomaly, rca) ==
    IF conditions = <<>> THEN "true"
    ELSE LET cond == Head(conditions)
             left == IF cond.field \in {"anomaly.type", "anomaly.score"}
                     THEN dict_get(anomaly, FieldKey(cond.field))
                     ELSE IF cond.field \in {"rca.cause", "rca.probability"}
                     THEN dict_get(rca, FieldKey(cond.field))
                     ELSE <<>>
             c == engine_compare(left, cond.op, cond.value)
         IN  IF c = "true" THEN engine_conditions_hold(Tail(conditions), anomaly, rca)
             ELSE c

engine_policy_matches(policy, anomaly, rca) ==
    engine_conditions_hold(policy.conditions, anomaly, rca)

(* matches = [p for p in policies if _policy_matches(p, signal)] *)
RECURSIVE Matches(_, _)
Matches(policies, signal) ==
    IF policies = <<>> THEN [raised |-> FALSE, list |-> <<>>]
    ELSE LET m == policy_matches(Head(policies), signal)
             rest == Matches(Tail(policies), signal)
         IN  IF m = "TypeError" \/ rest.raised
             THEN [raised |-> TRUE, list |-> <<>>]
             ELSE IF m = "true"
             THEN [raised |-> FALSE, list |-> <<Head(policies)>> \o rest.list]
             ELSE rest

(* p.priority: the attribute exists only if the object was given one *)
hasattr(p, name) == name \in DOMAIN p

(* key=lambda p: (p.priority, len(p.conditions)) compared as tuples *)
KeyGreater(p, q) ==
    \/ p.priority > q.priority
    \/ p.priority = q.priority /\ Len(p.conditions) > Len(q.conditions)

(* _select_best_policy: None (<<>>) for no match; otherwise the first of   *)
(* sorted(matches, key=..., reverse=True), a stable sort: the earliest in  *)
(* the list among those of the greatest key.  The key is computed for each *)
(* match, and raises AttributeError on an object without priority.         *)
select_best_policy(matches) ==
    IF matches = <<>> THEN [raised |-> FALSE, best |-> <<>>]
    ELSE IF \E n \in 1..Len(matches) : ~hasattr(matches[n], "priority")
    THEN [raised |-> TRUE, best |-> <<>>]
    ELSE LET top == { i \in 1..Len(matches) :
                        \A j \in 1..Len(matches) : ~KeyGreater(matches[j], matches[i]) }
             first == CHOOSE i \in top : \A j \in top : i <= j
         IN  [raised |-> FALSE, best |-> << matches[first] >>]

ActionPlan(type, dry_run, scale) ==
    [type |-> type, dry_run |-> dry_run, verify |-> TRUE, scale |-> scale]

TypeError ==
    [cls |-> "TypeError", status_code |-> 0,
     detail |-> <<"not", "supported", "between", "float", "and", "str">>]

NoPriorityError ==
    [cls |-> "AttributeError", status_code |-> 0,
     detail |-> <<"Policy", "object", "has", "no", "attribute", "priority">>]

EvalRaised(exc, last) ==
    [raised |-> TRUE, exc |-> exc, plan |-> <<>>, reason |-> "none",
     chosen |-> <<>>, last |-> last]

EvalReturned(plan, reason, chosen, last) ==
    [raised |-> FALSE, exc |-> NoException, plan |-> << plan >>, reason |-> reason,
     chosen |-> chosen, last |-> last]

(* evaluate_signal_with_policies(signal, policies, ...) at time now with   *)
(* _last_restart_at[target_key] = last (<<>> when absent): what it returns *)
(* or raises, and _last_restart_at[target_key] afterwards                  *)
evaluate_signal_with_policies(signal, policies, last, now) ==
    LET matches == Matches(policies, signal)
    IN  IF matches.raised THEN EvalRaised(TypeError, last)
        ELSE LET sel == select_best_policy(matches.list)
             IN  IF sel.raised THEN EvalRaised(NoPriorityError, last)
                 ELSE IF sel.best = <<>>
                 THEN EvalReturned(ActionPlan("restart", TRUE, <<>>),
                                   "no_match_fallback_restart_dry_run", <<>>, last)
                 ELSE LET action == sel.best[1].action
                      IN  IF action.kind = "restart"
                          THEN IF last # <<>> /\ now - last[1] < RESTART_COOLDOWN_SECONDS
                               THEN EvalReturned(ActionPlan("restart", TRUE, <<>>),
                                                 "restart_blocked_by_cooldown",
                                                 sel.best, last)
                               ELSE EvalReturned(ActionPlan("restart", FALSE, <<>>),
                                                 "restart_allowed", sel.best, <<now>>)
                          ELSE IF action.kind = "scale"
                          THEN LET requested ==
                                     IF action.scale_replicas = <<>>
                                        \/ action.scale_replicas[1] = 0
                                     THEN 1 ELSE action.scale_replicas[1]
                                   safe_replicas ==
                                     Max(MIN_REPLICAS, Min(MAX_REPLICAS, requested))
                               IN  IF requested < MIN_REPLICAS \/ requested > MAX_REPLICAS
                                   THEN EvalReturned(
                                          ActionPlan("scale", TRUE, <<safe_replicas>>),
                                          "scale_outside_limits_clamped_dry_run",
                                          sel.best, last)
                                   ELSE EvalReturned(
                                          ActionPlan("scale", FALSE, <<safe_replicas>>),
                                          "scale_within_limits", sel.best, last)
                          ELSE EvalReturned(ActionPlan("restart", TRUE, <<>>),
                                            "unknown_action_fallback_restart_dry_run",
                                            sel.best, last)

(* a caller has a signal and the loaded policies evaluated *)
EvalCall ==
    /\ evaluator.pc \in {"idle", "returned", "raised"}
    /\ evaluator.evals < MaxEvals
    /\ \E policies \in PolicyLists, signal \in Signals :
         evaluator' = [evaluator EXCEPT !.pc = "eval", !.policies = policies,
                                        !.signal = signal, !.plan = <<>>,
                                        !.reason = "none", !.chosen = <<>>,
                                        !.exc = NoException,
                                        !.last_before = evaluator.last_restart_at,
                                        !.restarts_before = evaluator.restarts,
                                        !.evals = @ + 1]
    /\ UNCHANGED beside_evaluator

(* Mutant: every second call forgets the loaded policies *)
EvaluatedByCallCount(e) ==
    LET r == evaluate_signal_with_policies(e.signal,
                 IF e.evals % 2 = 0 THEN e.policies ELSE <<>>,
                 e.last_restart_at, e.now)
    IN  [e EXCEPT !.pc = IF r.raised THEN "raised" ELSE "returned",
                  !.exc = r.exc, !.plan = r.plan, !.reason = r.reason,
                  !.chosen = r.chosen, !.last_restart_at = r.last, !.at = e.now,
                  !.restarts = IF ~r.raised /\ r.reason = "restart_allowed"
                               THEN @ \cup { [service |-> e.signal.service,
                                              at |-> e.now] }
                               ELSE @]

(* the call with its arguments, the clock and _last_restart_at as they are *)
(* in e, and what it leaves                                                *)
Evaluated(e) ==
    LET r == evaluate_signal_with_policies(e.signal, e.policies,
                                           e.last_restart_at, e.now)
    IN  [e EXCEPT !.pc = IF r.raised THEN "raised" ELSE "returned",
                  !.exc = r.exc, !.plan = r.plan, !.reason = r.reason,
                  !.chosen = r.chosen, !.last_restart_at = r.last, !.at = e.now,
                  !.restarts = IF ~r.raised /\ r.reason = "restart_allowed"
                               THEN @ \cup { [service |-> e.signal.service,
                                              at |-> e.now] }
                               ELSE @]

(* the whole of evaluate_signal_with_policies *)
Evaluate ==
    /\ evaluator.pc = "eval"
    /\ evaluator' = Evaluated(evaluator)
    /\ UNCHANGED beside_evaluator

(* datetime.utcnow() moves on between calls *)
EvalTick ==
    /\ evaluator.pc # "eval"
    /\ evaluator.now + EvalClockStep <= MaxEvalClock
    /\ evaluator' = [evaluator EXCEPT !.now = @ + EvalClockStep]
    /\ UNCHANGED beside_evaluator

InitEvaluator ==
    /\ ClosedLoopAtRest
    /\ evaluator = EvaluatorIdle
    /\ IdleExcept("evaluator")

NextEvaluator == EvalCall \/ Evaluate \/ EvalTick

SpecEvaluator == InitEvaluator /\ [][NextEvaluator]_vars

----------------------------------------------------------------------------
(* Two evaluations started from the same signal, policy list, cooldown map *)
(* and clock, in processes with different pasts                            *)

CooldownMaps == { <<>>, <<0>>, <<60>> }

EvalClocks == { 60, 120, 180 }

TwinCalls ==
    { [one |-> [EvaluatorIdle EXCEPT !.pc = "eval", !.policies = policies,
                                   !.signal = signal, !.last_restart_at = last,
                                   !.last_before = last, !.now = now, !.evals = 1],
       two |-> [EvaluatorIdle EXCEPT !.pc = "eval", !.policies = policies,
                                   !.signal = signal, !.last_restart_at = last,
                                   !.last_before = last, !.now = now, !.evals = 2]] :
        policies \in PolicyLists, signal \in Signals, last \in CooldownMaps,
        now \in EvalClocks }

TwinEvaluate(w) ==
    /\ engine.twins[w].pc = "eval"
    /\ engine' = [engine EXCEPT !.twins[w] = Evaluated(engine.twins[w])]
    /\ UNCHANGED beside_engine

InitTwins ==
    /\ ClosedLoopAtRest
    /\ engine \in { [EngineIdle EXCEPT !.twins = t] : t \in TwinCalls }
    /\ IdleExcept("engine")

NextTwins == TwinEvaluate("one") \/ TwinEvaluate("two")

SpecTwins == InitTwins /\ [][NextTwins]_vars

----------------------------------------------------------------------------
(* The audit log: AuditLogger (runtime/audit_logger.py) and the endpoint   *)
(* audit_latest (app.py).  A line of the file is an event written by       *)
(* write_event (json |-> TRUE, with its number), or text that is not JSON. *)

MaxAuditLines == 4

MaxLimit == 3

EventLine(n) == [json |-> TRUE, id |-> n]

CorruptLine == [json |-> FALSE, id |-> 0]

(* lines[-k:]: the last k lines, and every line when k is 0 *)
LastLines(lines, k) ==
    IF k = 0 \/ k >= Len(lines) THEN lines
    ELSE SubSeq(lines, Len(lines) - k + 1, Len(lines))

(* the loop over the lines kept: json.loads, except Exception: continue *)
RECURSIVE ParsedEvents(_)
ParsedEvents(lines) ==
    IF lines = <<>> THEN <<>>
    ELSE IF Head(lines).json THEN << Head(lines).id >> \o ParsedEvents(Tail(lines))
    ELSE ParsedEvents(Tail(lines))

(* AuditLogger.read_last_events(limit) *)
read_last_events(log, limit) ==
    IF ~log.exists THEN <<>> ELSE ParsedEvents(LastLines(log.lines, limit))

(* audit_latest(n): tail = lines[-max(1, n):] *)
audit_latest(log, n) ==
    IF ~log.exists THEN <<>> ELSE ParsedEvents(LastLines(log.lines, Max(1, n)))

(* AuditLogger.write_event(event): open(..., "a"), one line written *)
AuditWrite ==
    /\ Len(engine.audit.lines) < MaxAuditLines
    /\ engine' = [engine EXCEPT !.audit =
                    [@ EXCEPT !.exists = TRUE,
                              !.lines = Append(@, EventLine(engine.audit.next)),
                              !.next = @ + 1, !.reader = "none", !.events = <<>>]]
    /\ UNCHANGED beside_engine

(* a line that is not JSON reaches the file (a write cut short, an edit) *)
AuditCorrupt ==
    /\ Len(engine.audit.lines) < MaxAuditLines
    /\ engine' = [engine EXCEPT !.audit =
                    [@ EXCEPT !.exists = TRUE, !.lines = Append(@, CorruptLine),
                              !.reader = "none", !.events = <<>>]]
    /\ UNCHANGED beside_engine

AuditRead ==
    /\ \E limit \in 0..MaxLimit, reader \in {"read_last_events", "audit_latest"} :
         /\ <<reader, limit>> # <<engine.audit.reader, engine.audit.limit>>
         /\ engine' = [engine EXCEPT !.audit =
                         [@ EXCEPT !.reader = reader, !.limit = limit,
                                   !.events =
                                      IF reader = "read_last_events"
                                      THEN read_last_events(engine.audit, limit)
                                      ELSE audit_latest(engine.audit, limit)]]
    /\ UNCHANGED beside_engine

InitAudit ==
    /\ ClosedLoopAtRest
    /\ engine = EngineIdle
    /\ IdleExcept("engine")

NextAudit == AuditWrite \/ AuditCorrupt \/ AuditRead

SpecAudit == InitAudit /\ [][NextAudit]_vars

----------------------------------------------------------------------------
(* Properties.  Steps of the worker are told apart by what they do to the  *)
(* queue and to pc: only ProcessItem shortens the queue, only              *)
(* ExecuteReturns leaves "execute", only BackoffDone leaves "sleep".       *)

WorkerTook == Len(queue') = Len(queue) - 1
ExecuteEnded == pc = "execute" /\ pc' # "execute" /\ worker_task'
SleepEnded == pc = "sleep" /\ pc' = "get" /\ worker_task'

FleetReasons ==
    {"max_actions_per_hour_exceeded", "max_replicas_exceeded",
     "max_scale_increase_15m_exceeded"}

(* The key the item at the head of the queue maps to, when it maps to an action *)
HeadMapped == queue # <<>> /\ MapItem(Head(queue), TRUE) # <<>>
HeadKey == KeyOf(MapItem(Head(queue), TRUE)[1])
CurKey == KeyOf(cur[1].action_req)

(* An HTTP 400 whose message mentions guardrail or replica *)
IsReplicaGuardrailError(e) ==
    /\ e.cls = "HTTPException"
    /\ e.status_code = 400
    /\ \E i \in 1..Len(e.detail) : Lower(e.detail[i]) \in {"guardrail", "replica"}

(* C1: every scale action handed to execute_action has desired replicas   *)
(* at most max_replicas.                                                   *)
C1_SubmittedScaleWithinReplicaCap ==
    (pc = "execute" /\ cur[1].action_req.type = "scale")
        => cur[1].action_req.scale[1] <= max_replicas

(* C2: a step that blocks the item on a fleet guardrail does not call the  *)
(* execution layer, puts nothing on the queue and ends the item.           *)
C2_FleetBlockEndsItem ==
    [][ (WorkerTook /\ last_event'.reason \in FleetReasons)
          => /\ pc' = "get"
             /\ cur' = <<>>
             /\ queue' = Tail(queue)
             /\ UNCHANGED <<submitted, exec_count, replicas, last_action_at>>
      ]_vars

C2_Witness ==
    /\ last_event.step = "guardrail_blocked"
    /\ last_event.reason \in FleetReasons
    /\ pc = "get"

(* The submissions of a key in the hour that ends at T *)
SubmittedWithinHour(key, T) ==
    { j \in 1..Len(submitted[key]) :
        submitted[key][j] >= T - HourWindow /\ submitted[key][j] <= T }

HourlyCapHolds ==
    \A key \in DOMAIN submitted :
        \A T \in {clock} \cup { submitted[key][i] : i \in 1..Len(submitted[key]) } :
            Cardinality(SubmittedWithinHour(key, T)) <= max_actions_per_hour

HeadReachesFullHour ==
    /\ WorkerTook
    /\ HeadMapped
    /\ last_event'.step # "no_action"
    /\ HeadKey \in DOMAIN submitted
    /\ Cardinality(SubmittedWithinHour(HeadKey, clock)) >= max_actions_per_hour

HourlyBlock ==
    /\ last_event'.step = "guardrail_blocked"
    /\ last_event'.reason = "max_actions_per_hour_exceeded"
    /\ submitted' = submitted

(* C3 as stated: in every hour at most max_actions_per_hour calls of the   *)
(* execution layer are made for one key, retries included, and once that   *)
(* many were made in the trailing hour the next item of the key is blocked *)
(* with reason max_actions_per_hour_exceeded.                              *)
C3_FullHourAlwaysBlocksWithReason ==
    []HourlyCapHolds /\ [][HeadReachesFullHour => HourlyBlock]_vars

(* C3 amended: the same, for the next item of the key that the cooldown    *)
(* check does not skip; an item in cooldown is skipped before the hourly   *)
(* cap is looked at, and is not submitted either.                          *)
C3_HourlyCap ==
    /\ []HourlyCapHolds
    /\ [][ HeadReachesFullHour
             => \/ HourlyBlock
                \/ /\ last_event'.step = "cooldown_skipped"
                   /\ clock - last_action_at[HeadKey] < cooldown_seconds
                   /\ submitted' = submitted ]_vars

C3_Witness ==
    /\ last_event.reason = "max_actions_per_hour_exceeded"
    /\ \E key \in DOMAIN submitted :
          Cardinality(SubmittedWithinHour(key, clock)) = max_actions_per_hour

(* C4: an item whose key is in cooldown is skipped: no call of the         *)
(* execution layer, no retry, and the last-action timestamp, the hourly    *)
(* history and the scale history stay as they are.                         *)
C4_CooldownSkipIsNoOp ==
    [][ ( /\ WorkerTook
          /\ HeadMapped
          /\ last_event'.step # "no_action"
          /\ HeadKey \in DOMAIN last_action_at
          /\ clock - last_action_at[HeadKey] < cooldown_seconds )
        => /\ last_event'.step = "cooldown_skipped"
           /\ pc' = "get"
           /\ cur' = <<>>
           /\ queue' = Tail(queue)
           /\ UNCHANGED <<last_action_at, action_history, scale_history,
                          submitted, exec_count, replicas>>
      ]_vars

C4_Witness == last_event.step = "cooldown_skipped" /\ pc = "get"

(* C5 as stated: any two calls of the execution layer for one key are at   *)
(* least cooldown_seconds apart.                                           *)
C5_AnyTwoSubmissionsCooldownApart ==
    \A key \in DOMAIN submitted :
        \A i, j \in 1..Len(submitted[key]) :
            i < j => submitted[key][j] - submitted[key][i] >= cooldown_seconds

(* C5 amended: every call of the execution layer for a key that comes      *)
(* after a verified success of the key is at least cooldown_seconds later  *)
(* than that success.                                                      *)
C5_SubmissionAfterSuccessCooldownApart ==
    \A key \in DOMAIN last_success :
        \A j \in 1..Len(submitted[key]) :
            j > last_success[key].n
                => submitted[key][j] - last_success[key].at >= cooldown_seconds

C5_Witness ==
    \E key \in DOMAIN last_success : Len(submitted[key]) > last_success[key].n

(* What execute_action did for the item that was in processing *)
RaisedTransient(e) == e # NoException /\ ~IsReplicaGuardrailError(e)
ItemEnded == pc' = "get" /\ cur' = <<>> /\ queue' = queue
RetryOf(item) ==
    [kind |-> item.kind, signal |-> item.signal, attempt |-> item.attempt + 1,
     enqueued_at |-> item.enqueued_at, id |-> item.id]

TransientExceptionSleeps ==
    ( /\ ExecuteEnded
      /\ RaisedTransient(last_event'.exc)
      /\ cur[1].item.attempt < max_retries )
    => /\ pc' = "sleep"
       /\ cur'[1].item = cur[1].item
       /\ queue' = queue

(* C6 as stated: a transient exception at attempt < max_retries always     *)
(* puts a retry item for the signal on the queue after the backoff sleep,  *)
(* bounded queue or not, whatever the producers did meanwhile.             *)
C6_TransientExceptionAlwaysRequeued ==
    [][ /\ TransientExceptionSleeps
        /\ (SleepEnded /\ RaisedTransient(last_event.exc))
             => queue' = Append(queue, RetryOf(cur[1].item))
      ]_vars

(* C6 amended: after the backoff sleep the retry item is put at the back   *)
(* of the queue unless the queue is bounded and full at that moment, in    *)
(* which case the retry is dropped and the queue is left as it is.         *)
C6_TransientExceptionRequeuedUnlessFull ==
    [][ /\ TransientExceptionSleeps
        /\ (SleepEnded /\ RaisedTransient(last_event.exc))
             => /\ clock' = clock + base_backoff_seconds * Pow2(cur[1].item.attempt)
                /\ IF maxsize > 0 /\ Len(queue) >= maxsize
                   THEN queue' = queue
                   ELSE queue' = Append(queue, RetryOf(cur[1].item))
      ]_vars

C6_Witness ==
    /\ last_event.step = "retry_enqueued"
    /\ RaisedTransient(last_event.exc)
    /\ queue # <<>>
    /\ queue[Len(queue)].attempt > 0

AttemptsBounded ==
    /\ \A i \in 1..Len(queue) : queue[i].attempt \in 0..max_retries
    /\ cur # <<>> => cur[1].item.attempt \in 0..max_retries
    /\ \A id \in DOMAIN exec_count : exec_count[id] <= max_retries + 1

(* C7: a retry is a new item with the kind, signal and enqueued_at of the  *)
(* item it replaces and attempt one greater, put at the back of the queue; *)
(* every other new item has attempt 0; no queued item has attempt above    *)
(* max_retries and execute_action is called at most max_retries + 1 times  *)
(* for one ingested signal.                                                *)
C7_RetryItemsAndAttemptBound ==
    /\ []AttemptsBounded
    /\ [][ Len(queue') > Len(queue)
             => LET new == queue'[Len(queue')]
                IN  /\ queue' = Append(queue, new)
                    /\ IF SleepEnded
                       THEN new = RetryOf(cur[1].item)
                       ELSE new.attempt = 0 /\ new.enqueued_at = clock
         ]_vars

C7_Witness ==
    /\ \E id \in DOMAIN exec_count : exec_count[id] = max_retries + 1
    /\ pc = "get"

(* C8: a guardrail exception of the execution layer (HTTP 400 whose        *)
(* message mentions guardrail or replica) ends the item at any attempt,    *)
(* with no backoff sleep and no retry item, under the reason               *)
(* replica_guardrail_http_exception; any other exception is counted as     *)
(* EXCEPTION and never under that reason.                                  *)
C8_GuardrailExceptionNeverRetried ==
    [][ ExecuteEnded
          => /\ IsReplicaGuardrailError(last_event'.exc)
                  => /\ ItemEnded
                     /\ last_event'.step = "guardrail_exception"
                     /\ last_event'.reason = "replica_guardrail_http_exception"
                     /\ last_event'.verification_status = "GUARDRAIL_BLOCKED"
             /\ RaisedTransient(last_event'.exc)
                  => /\ last_event'.reason # "replica_guardrail_http_exception"
                     /\ last_event'.status \in {"exception", "failed"}
                     /\ last_event'.verification_status = "EXCEPTION"
      ]_vars

C8_Witness ==
    /\ last_event.step = "guardrail_exception"
    /\ next_id = 2
    /\ exec_count[1] = 2
    /\ queue = <<>>

(* C9: after execute_action returned without a verified success, a FAILED  *)
(* verification ends the item at any attempt; a TIMED_OUT verification or  *)
(* no verification result starts the retry path when attempt < max_retries *)
(* and ends the item otherwise.                                            *)
C9_RetryEligibilityByVerification ==
    [][ ( /\ ExecuteEnded
          /\ last_event'.exc = NoException
          /\ last_event'.verification_status # "SUCCESS" )
        => IF last_event'.verification_status = "FAILED"
           THEN ItemEnded /\ last_event'.step = "terminal_failure"
           ELSE /\ last_event'.verification_status \in {"TIMED_OUT", "NONE"}
                /\ IF cur[1].item.attempt < max_retries
                   THEN /\ pc' = "sleep"
                        /\ cur'[1].item = cur[1].item
                        /\ last_event'.step = "retry_scheduled"
                   ELSE ItemEnded /\ last_event'.step = "terminal_failure"
      ]_vars

C9_Witness ==
    /\ last_event.step = "terminal_failure"
    /\ last_event.verification_status = "FAILED"
    /\ next_id = 2
    /\ exec_count[1] = 1

HeadPrunedHistory ==
    FilterSince(DictGet(action_history, HeadKey, <<>>), clock - HourWindow)

ExecutionRaisedOrFailed ==
    /\ ExecuteEnded
    /\ \/ last_event'.exc # NoException
       \/ last_event'.verification_status # "SUCCESS"

(* C10 as stated: an item whose execution raises or is not verified        *)
(* successfully leaves the last-action timestamp and the rate-limit        *)
(* history of its key as they were before the item (entries older than an  *)
(* hour aside).                                                            *)
C10_FailedItemLeavesHistory ==
    [][ ExecutionRaisedOrFailed
          => /\ last_action_at' = last_action_at
             /\ DictGet(action_history', CurKey, <<>>) =
                    FilterSince(cur[1].history_before, cur[1].now - HourWindow)
      ]_vars

(* C10 amended: the last-action timestamp is written only when the action  *)
(* was executed and verified successfully; the item's time is appended to  *)
(* the rate-limit history of its key when the item passes the cooldown and *)
(* the fleet guardrails, before execute_action is called, and stays there  *)
(* whatever the execution does.                                            *)
C10_TimestampOnSuccessHistoryOnSubmission ==
    [][ /\ last_action_at' # last_action_at
          => /\ ExecuteEnded
             /\ last_event'.exc = NoException
             /\ last_event'.verification_status = "SUCCESS"
             /\ last_action_at' = DictSet(last_action_at, CurKey, cur[1].now)
        /\ action_history' # action_history => WorkerTook
        /\ (WorkerTook /\ HeadMapped /\ last_event'.step # "no_action")
          => IF pc' = "execute"
             THEN DictGet(action_history', HeadKey, <<>>) =
                      Append(HeadPrunedHistory, clock)
             ELSE IF last_event'.step = "cooldown_skipped"
             THEN action_history' = action_history
             ELSE DictGet(action_history', HeadKey, <<>>) = HeadPrunedHistory
      ]_vars

C10_Witness ==
    /\ last_event.step = "terminal_failure"
    /\ last_event.exc # NoException
    /\ last_action_at = <<>>
    /\ \E key \in DOMAIN action_history : Len(action_history[key]) = max_retries + 1

(* The positive deltas a scale history holds with timestamps in the 900    *)
(* seconds that end at T                                                   *)
RECURSIVE RecentIncrease(_, _)
RecentIncrease(sh, T) ==
    IF sh = <<>> THEN 0
    ELSE ( IF Head(sh)[1] >= T - ScaleWindow /\ Head(sh)[2] > 0
           THEN Head(sh)[2] ELSE 0 ) + RecentIncrease(Tail(sh), T)

ScaleIncreaseWithinCap ==
    \A sh_key \in DOMAIN scale_history :
        RecentIncrease(scale_history[sh_key], clock) <= max_scale_increase_15m

HeadRequest == MapItem(Head(queue), TRUE)[1]
HeadWorkload == <<HeadRequest.target.namespace, HeadRequest.target.name>>
HeadDelta == HeadRequest.scale[1] - replicas[HeadRequest.target.name]

(* The item at the head is a scale-up that would push the 15-minute sum    *)
(* above the cap, and no earlier check (cooldown, hourly cap, absolute     *)
(* replica cap) stops it.                                                  *)
HeadScaleWouldExceed ==
    /\ WorkerTook
    /\ HeadMapped
    /\ HeadRequest.type = "scale"
    /\ HeadDelta > 0
    /\ RecentIncrease(DictGet(scale_history, HeadWorkload, <<>>), clock) + HeadDelta
           > max_scale_increase_15m
    /\ last_event'.step \notin {"no_action", "cooldown_skipped"}
    /\ last_event'.reason \notin {"max_actions_per_hour_exceeded",
                                  "max_replicas_exceeded"}

(* C11: the positive deltas recorded for a workload in the trailing 900    *)
(* seconds sum to at most max_scale_increase_15m, and a scale whose        *)
(* positive delta would push the sum above the cap is blocked with reason  *)
(* max_scale_increase_15m_exceeded, is not recorded and is not executed.   *)
C11_ScaleIncreaseCap ==
    /\ []ScaleIncreaseWithinCap
    /\ [][ HeadScaleWouldExceed
             => /\ last_event'.step = "guardrail_blocked"
                /\ last_event'.reason = "max_scale_increase_15m_exceeded"
                /\ scale_history' = scale_history
                /\ submitted' = submitted
                /\ pc' = "get" ]_vars

QueueWithinMaxsize == maxsize > 0 => Len(queue) <= maxsize

ProducerNeverBlocks ==
    next_id <= MaxSignals => (ENABLED enqueue_anomaly) /\ (ENABLED enqueue_rca)

ProducerStep == next_id' = next_id + 1

(* C13: a producer's call always returns: on a bounded queue that is full  *)
(* the signal is dropped and the queue is left as it is, otherwise a fresh *)
(* item (attempt 0) is put at the back; the worker is not touched; the     *)
(* queue never holds more than maxsize items when maxsize > 0, and with    *)
(* maxsize 0 every signal is put.                                          *)
C13_EnqueueNeverBlocksDropsWhenFull ==
    /\ [](QueueWithinMaxsize /\ ProducerNeverBlocks)
    /\ [][ ProducerStep
             => /\ IF maxsize > 0 /\ Len(queue) >= maxsize
                   THEN queue' = queue
                   ELSE /\ Len(queue') = Len(queue) + 1
                        /\ SubSeq(queue', 1, Len(queue)) = queue
                        /\ queue'[Len(queue')].attempt = 0
                        /\ queue'[Len(queue')].id = next_id
                        /\ queue'[Len(queue')].enqueued_at = clock
                /\ UNCHANGED <<pc, cur, worker_task, clock>> ]_vars

C13_Witness ==
    /\ maxsize > 0
    /\ Len(queue) = maxsize
    /\ next_id > maxsize + 1
    /\ ~worker_task
    /\ \A id \in DOMAIN exec_count : exec_count[id] = 0
    /\ last_event.step = "init"

----------------------------------------------------------------------------
(* Worker tasks of the lifecycle *)

LiveTasks == { t \in TaskIds : lifecycle.tasks[t].state \in {"waiting", "processing"} }

ProcessingTasks == { t \in TaskIds : lifecycle.tasks[t].state = "processing" }

(* C12: at most one QueueItem is between its dequeue and its task_done at  *)
(* any time, under every interleaving of producers and start()/stop()      *)
(* calls, and start() never leaves more than one worker task alive (so the *)
(* guardrail maps have a single writer).                                   *)
C12_AtMostOneItemInProcessing ==
    /\ Cardinality(ProcessingTasks) <= 1
    /\ Cardinality(LiveTasks) <= 1

----------------------------------------------------------------------------
(* The end-to-end scenario *)

(* The item in execution is a first-attempt resource anomaly mapped to     *)
(* Scale to 4 for a workload at 3 replicas, its key not in cooldown        *)
ScenarioInExecution ==
    /\ pc = "execute"
    /\ cur[1].item.kind = "anomaly"
    /\ cur[1].item.signal.type = "resource"
    /\ cur[1].item.attempt = 0
    /\ cur[1].action_req.type = "scale"
    /\ cur[1].action_req.scale = <<4>>
    /\ ~cur[1].action_req.dry_run
    /\ replicas[cur[1].action_req.target.name] = 3
    /\ ~CooldownActive(CurKey, cur[1].now)

(* What the environment can make of an execution: the Policy Engine or the *)
(* cluster fails (an HTTPException), or the rollout does not complete      *)
EnvironmentFailed(event) ==
    \/ event.exc.cls = "HTTPException"
    \/ event.verification_status \in {"FAILED", "TIMED_OUT"}

(* C14: a resource anomaly for a workload at 3 replicas with no action of  *)
(* its key in the last 300 s is mapped to Scale to 4 with dry_run false,   *)
(* and when neither the Policy Engine, the Action Runner nor the rollout   *)
(* fails the item ends in terminal success: the cooldown timestamp of the  *)
(* key is set and no retry item is enqueued.                               *)
C14_EndToEndSuccess ==
    [][ /\ ( WorkerTook /\ Head(queue).kind = "anomaly"
                        /\ Head(queue).signal.type = "resource"
                        /\ replicas[CanonicalName] = 3
                        /\ pc' = "execute"
             => /\ cur'[1].action_req.type = "scale"
                /\ cur'[1].action_req.scale = <<4>>
                /\ ~cur'[1].action_req.dry_run )
        /\ ( ExecuteEnded /\ ScenarioInExecution /\ ~EnvironmentFailed(last_event')
             => /\ last_event'.step = "success"
                /\ DictGet(last_action_at', CurKey, -1) = cur[1].now
                /\ ItemEnded ) ]_vars

----------------------------------------------------------------------------
(* ActionRunner.run *)

(* run was called for a scale with replicas outside the bounds while the   *)
(* enforcement is enabled                                                  *)
RunnerBoundViolated ==
    /\ runner.action_type = "scale"
    /\ runner.enforce
    /\ runner.replicas # <<>>
    /\ ( runner.replicas[1] < ORCH_MIN_REPLICAS
         \/ runner.replicas[1] > ORCH_MAX_REPLICAS )

RunnerReturned == runner.pc = "done" /\ runner.result # <<>>

(* C17: for a scale with replicas outside [ORCH_MIN_REPLICAS,              *)
(* ORCH_MAX_REPLICAS] (enforcement enabled) run returns status failed with *)
(* attempts 0 and a "Replica guardrail violated" error, and never calls    *)
(* the action function nor sleeps, with dry_run requested or not.          *)
C17_BoundViolationFailsWithoutAttempt ==
    RunnerBoundViolated =>
        /\ runner.pc \in {"enter", "done"}
        /\ runner.calls = 0
        /\ runner.sleeps = 0
        /\ ~runner.applied
        /\ runner.pc = "done" =>
             /\ runner.result # <<>>
             /\ runner.result[1].status = "failed"
             /\ runner.result[1].attempts = 0
             /\ Len(runner.result[1].error) >= 3
             /\ SubSeq(runner.result[1].error, 1, 3) = <<"Replica", "guardrail", "violated">>

C17_Witness ==
    /\ RunnerReturned
    /\ RunnerBoundViolated
    /\ runner.dry_run
    /\ runner.replicas = <<11>>
    /\ runner.result[1].status = "failed"

(* C18: with dry_run true and no replica-bound violation run returns       *)
(* status dry_run with attempts 0 and error None and never calls the       *)
(* action function: nothing is applied to the cluster.                     *)
C18_DryRunShortCircuits ==
    runner.pc # "idle" /\ runner.dry_run /\ ~RunnerBoundViolated =>
        /\ runner.pc \in {"enter", "done"}
        /\ runner.calls = 0
        /\ ~runner.applied
        /\ runner.pc = "done" =>
             /\ runner.result # <<>>
             /\ runner.result[1].status = "dry_run"
             /\ runner.result[1].attempts = 0
             /\ runner.result[1].error = <<>>

C18_Witness ==
    /\ RunnerReturned
    /\ runner.dry_run
    /\ runner.action_type = "restart"
    /\ runner.result[1].status = "dry_run"

(* C19: run never raises for a failing action function.  It calls the      *)
(* action function at most max_retries + 1 times and stops at the first    *)
(* call that returns (status success, attempts = calls made); it sleeps    *)
(* only between attempts, never after the last one; it returns status      *)
(* failed, with attempts = max_retries + 1 and the last error text,        *)
(* exactly when every call raised.                                         *)
C19_RetriesWithinBudget ==
    runner.pc # "idle" /\ ~runner.dry_run /\ ~RunnerBoundViolated =>
        /\ runner.calls <= runner.max_retries + 1
        /\ runner.sleeps <= runner.max_retries
        /\ runner.pc \in {"enter", "attempt", "sleep", "done"}
        /\ runner.pc = "attempt" => runner.sleeps = runner.calls
        /\ runner.pc = "done" =>
             /\ runner.result # <<>>
             /\ runner.calls >= 1
             /\ runner.sleeps = runner.calls - 1
             /\ runner.result[1].status \in {"success", "failed"}
             /\ runner.result[1].attempts = runner.calls
             /\ runner.result[1].status = "success" =>
                  /\ runner.raised = runner.calls - 1
                  /\ runner.applied
                  /\ runner.result[1].error = <<>>
             /\ runner.result[1].status = "failed" <=> runner.raised = runner.calls
             /\ runner.result[1].status = "failed" =>
                  /\ runner.calls = runner.max_retries + 1
                  /\ runner.result[1].error = runner.last_error
                  /\ runner.last_error # <<>>
                  /\ ~runner.applied

C19_Witness ==
    /\ RunnerReturned
    /\ runner.max_retries = 2
    /\ runner.raised = 3
    /\ runner.sleeps = 2
    /\ runner.result[1].status = "failed"
    /\ runner.result[1].error = <<"timeout">>

----------------------------------------------------------------------------
(* verify_deployment_rollout *)

VerifierSucceeded ==
    /\ verifier.pc = "done"
    /\ verifier.result # <<>>
    /\ verifier.result[1].status = "SUCCESS"

(* desired as the contract has it: expected_replicas when supplied, else   *)
(* the declared replica count of the workload in the last observed status  *)
ContractDesired ==
    IF verifier.expected_replicas # <<>> THEN verifier.expected_replicas[1]
    ELSE verifier.last_observed.replicas

(* C20: SUCCESS is returned only if the last observed status has observed  *)
(* generation >= declared generation and updated, ready and available      *)
(* replicas all >= desired (expected_replicas when supplied, the declared  *)
(* replica count otherwise); a SUCCESS result never reports ready_replicas *)
(* below desired_replicas.                                                 *)
C20_SuccessOnlyWhenRolledOutToDesired ==
    VerifierSucceeded =>
        /\ verifier.last_observed.observed_generation # <<>>
        /\ verifier.last_observed.observed_generation[1] >=
               verifier.last_observed.generation[1]
        /\ verifier.last_observed.updated_replicas >= ContractDesired
        /\ verifier.last_observed.ready_replicas >= ContractDesired
        /\ verifier.last_observed.available_replicas >= ContractDesired
        /\ verifier.result[1].ready_replicas >= verifier.result[1].desired_replicas

----------------------------------------------------------------------------
(* Progress *)

WorkerWaiting == pc = "get" /\ cur = <<>>

RunnerBusy == runner.pc \in {"enter", "attempt", "sleep"}

VerifierBusy == verifier.pc \in {"enter", "poll", "sleep"}

InQueue(id) == \E i \in 1..Len(queue) : queue[i].id = id

(* C15: no operation blocks indefinitely when the calls into the cluster   *)
(* and the Policy Engine return: an item taken from the queue reaches the  *)
(* end of its processing and the worker waits on the queue again; the      *)
(* chains of retries end, so that the queue drains for good once the       *)
(* signals stop; a call of the Action Runner returns; a rollout            *)
(* verification returns or raises.  Every wait is under a ceiling: the     *)
(* attempt of an item, the sleeps of the runner, the elapsed time at which *)
(* the verification still sleeps.                                          *)
C15_NoOperationBlocksForever ==
    /\ [](cur # <<>> => cur[1].item.attempt <= max_retries)
    /\ [](runner.sleeps <= runner.max_retries)
    /\ [](verifier.pc = "sleep" => verifier.elapsed <= verifier.timeout_seconds)
    /\ (pc # "get") ~> WorkerWaiting
    /\ <>[](WorkerWaiting /\ queue = <<>>)
    /\ RunnerBusy ~> (runner.pc = "done")
    /\ VerifierBusy ~> (verifier.pc \in {"done", "raised"})

C15_Witness ==
    /\ pc = "sleep"
    /\ cur[1].item.attempt = 1
    /\ last_event.step = "retry_scheduled"

(* A step in which the processing of an item fails for good *)
ItemFailed ==
    \/ ExecuteEnded /\ last_event'.step = "terminal_failure"
    \/ WorkerTook /\ last_event'.step \in {"unhandled_error", "worker_crashed"}

(* C16: a failure while processing an item never ends the worker: an       *)
(* exception escaping _process_item and exhausted retries are recorded as  *)
(* outcomes, task_done is called exactly once per dequeued item, and every *)
(* item in the queue afterwards is still dequeued.                         *)
C16_FailureNeverCrashesWorker ==
    /\ [](pc # "crashed")
    /\ [](unfinished_tasks = Len(queue) + (IF cur # <<>> THEN 1 ELSE 0))
    /\ [][ ItemFailed =>
             /\ worker_task'
             /\ WorkerWaiting'
             /\ last_event'.status \in {"failed", "exception"}
             /\ unfinished_tasks' = unfinished_tasks - 1 ]_vars
    /\ \A id \in 1..MaxSignals : InQueue(id) ~> ~InQueue(id)

C16_Witness ==
    /\ last_event.step \in {"terminal_failure", "unhandled_error"}
    /\ worker_task
    /\ WorkerWaiting
    /\ queue # <<>>
    /\ unfinished_tasks = Len(queue)

(* C21: a fault while reading the workload status, on the initial read or  *)
(* on a later poll, makes verify_deployment_rollout return a result with   *)
(* status FAILED carrying the exception text; it never raises to its       *)
(* caller and never returns PENDING.                                       *)
C21_ReadFaultReturnsFailed ==
    /\ verifier.pc # "raised"
    /\ verifier.fault # <<>> =>
         /\ verifier.pc = "done"
         /\ verifier.result # <<>>
         /\ verifier.result[1].status = "FAILED"
         /\ verifier.result[1].exception = verifier.fault
    /\ verifier.result # <<>> => verifier.result[1].status # "PENDING"

----------------------------------------------------------------------------
(* execute_action *)

GateEnded == gate.pc \in {"raised", "returned"}

(* the Policy Engine could not be consulted, or denied the action *)
GateMustBlock == ~gate.dry_run /\ gate.answer # "action"

(* C22: for a non-dry-run request, when the Policy Engine cannot be        *)
(* consulted (unreachable, HTTP error, not JSON, unexpected response) or   *)
(* denies the action, execute_action calls no cluster action function and  *)
(* no verification, and raises an HTTP error whose status differs from     *)
(* the status 500 of an execution failure.                                 *)
C22_GateFailsClosed ==
    GateMustBlock =>
        /\ gate.runner_calls = 0
        /\ gate.verify_calls = 0
        /\ gate.pc # "returned"
        /\ gate.pc = "raised" =>
             /\ gate.exc.cls = "HTTPException"
             /\ gate.exc.status_code # 500

----------------------------------------------------------------------------
(* Ingestion endpoints *)

(* the signal of the request being served is in the Signal Store *)
SignalStored ==
    IF ingest.kind = "anomaly"
    THEN \E n \in 1..Len(ingest.anomalies) : ingest.anomalies[n] = ingest.windowId
    ELSE \E n \in 1..Len(ingest.rcas) : ingest.rcas[n] = ingest.windowId

SignalEnqueued ==
    \E n \in 1..Len(ingest.enqueued) :
        ingest.enqueued[n] = <<ingest.kind, ingest.windowId>>

(* C23: the ingestion endpoints store every received signal before they    *)
(* consult the Policy Engine, whatever the outcome; the signal is enqueued *)
(* only when the decision is allow; when the Policy Engine is unreachable  *)
(* the endpoint still answers accepted=true, without enqueueing.           *)
C23_StoreThenGate ==
    /\ ingest.pc \in {"gate", "done"} => SignalStored
    /\ ingest.policy_calls > 0 => Len(ingest.anomalies) + Len(ingest.rcas) > 0
    /\ SignalEnqueued => ingest.answer = "action"
    /\ ingest.pc = "done" /\ ingest.answer = "unreachable" =>
         /\ ingest.response[1].accepted
         /\ ~SignalEnqueued

----------------------------------------------------------------------------
(* PolicyStore *)

(* thread t's reload() returns in this step *)
ReloadReturns(t) ==
    /\ store.th[t].op = "reload"
    /\ store.th[t].result = <<>>
    /\ store'.th[t].result # <<>>

(* C24: a reload() that fails (file missing, text that does not parse)     *)
(* leaves self._policies as it was and returns ok=false with the count of  *)
(* the list that stays loaded and the error text; the list is replaced     *)
(* only by a reload() that succeeds, which returns ok=true and the count   *)
(* of the new list.                                                        *)
C24_FailedReloadKeepsPolicies ==
    [][ /\ \A t \in StoreThreads :
             ReloadReturns(t) =>
                LET r == store'.th[t].result[1]
                IN  IF r.ok
                    THEN /\ store'.policies = store.th[t].parsed.items
                         /\ r.policy_count = Len(store'.policies)
                         /\ r.error = <<>>
                    ELSE /\ store'.policies = store.policies
                         /\ r.policy_count = Len(store.policies)
                         /\ r.error # <<>>
        /\ store'.policies # store.policies =>
             \E t \in StoreThreads :
                /\ ReloadReturns(t)
                /\ store'.th[t].result[1].ok
                /\ ~parse_policies(store.th[t].text).raised
      ]_vars

(* a reload has failed while two policies were loaded, and they still are *)
C24_Witness ==
    \E t \in StoreThreads :
        /\ store.th[t].result # <<>>
        /\ ~store.th[t].result[1].ok
        /\ store.th[t].result[1].policy_count = 2
        /\ store.policies = <<"P1", "P2">>

(* C25: whatever the interleaving of reload() and get_policies(), the list *)
(* a get_policies() returns is a complete list installed by an earlier     *)
(* successful reload (or the initial empty list), and a caller that        *)
(* mutates the list it was given changes neither the store's list nor the  *)
(* lists given to others.                                                  *)
C25_GetReturnsInstalledCopy ==
    /\ store.policies \in store.installed
    /\ \A t \in StoreThreads :
         LET th == store.th[t]
         IN  th.got # <<>> =>
               IF th.mutated
               THEN SubSeq(th.got[1].items, 1, Len(th.got[1].items) - 1)
                       \in store.installed
               ELSE th.got[1].items \in store.installed

(* one caller has mutated its list, another holds the loaded policies *)
C25_Witness ==
    \E t, u \in StoreThreads :
        /\ store.th[t].mutated
        /\ store.th[t].got[1].items = <<"P1", "P2", "mine">>
        /\ store.th[u].got # <<>>
        /\ ~store.th[u].mutated
        /\ store.th[u].got[1].items = <<"P1", "P2">>
        /\ store.th[u].calls = MaxStoreCalls

----------------------------------------------------------------------------
(* Evaluator *)

EvalEnded == evaluator.pc \in {"returned", "raised"}

(* the policies of the evaluated list whose conditions all hold for the signal *)
Holding ==
    { n \in 1..Len(evaluator.policies) :
        policy_matches(evaluator.policies[n], evaluator.signal) = "true" }

(* every comparison of the evaluation is between values of one type *)
WellTyped == ~Matches(evaluator.policies, evaluator.signal).raised

HoldingKinds == { evaluator.policies[n].action.kind : n \in Holding }

(* C26: among the policies whose conditions all hold for the signal, the   *)
(* Evaluator chooses one of the highest priority: no matching policy has a *)
(* priority strictly greater than the chosen one's.                        *)
C26_HighestPriorityChosen ==
    EvalEnded /\ WellTyped /\ Holding # {} =>
        /\ evaluator.pc = "returned"
        /\ evaluator.chosen # <<>>
        /\ \E n \in Holding : evaluator.policies[n] = evaluator.chosen[1]
        /\ \A n \in Holding :
             evaluator.policies[n].priority <= evaluator.chosen[1].priority

(* C27: when several matching policies share the highest priority, the     *)
(* Evaluator chooses one with the greatest number of conditions, whatever  *)
(* the order of the policies in the list.                                  *)
C27_MostSpecificAmongEqualPriority ==
    EvalEnded /\ WellTyped /\ Cardinality(Holding) >= 2 =>
        /\ evaluator.pc = "returned"
        /\ evaluator.chosen # <<>>
        /\ \A n \in Holding :
             evaluator.policies[n].priority = evaluator.chosen[1].priority =>
                Len(evaluator.policies[n].conditions)
                    <= Len(evaluator.chosen[1].conditions)

(* C28: for every signal that matches no policy (the empty list included)  *)
(* the Evaluator returns the plan Restart with dry_run=true and the reason *)
(* no_match_fallback_restart_dry_run, raises no exception and leaves the   *)
(* restart cooldown state as it was.                                       *)
C28_NoMatchFallsBackToDryRunRestart ==
    EvalEnded /\ Holding = {} =>
        /\ evaluator.pc = "returned"
        /\ evaluator.exc = NoException
        /\ evaluator.plan = << ActionPlan("restart", TRUE, <<>>) >>
        /\ evaluator.reason = "no_match_fallback_restart_dry_run"
        /\ evaluator.last_restart_at = evaluator.last_before

CooldownRunning ==
    /\ evaluator.last_before # <<>>
    /\ evaluator.at - evaluator.last_before[1] < RESTART_COOLDOWN_SECONDS

(* C29: an evaluation that triggers a restart yields dry_run=false and     *)
(* starts the window when no restart was allowed in the last               *)
(* RESTART_COOLDOWN_SECONDS, and yields dry_run=true with the reason       *)
(* restart_blocked_by_cooldown inside the window; at or after the window's *)
(* end a restart is allowed again.                                         *)
C29_RestartCooldown ==
    EvalEnded /\ WellTyped /\ HoldingKinds = {"restart"} =>
        /\ evaluator.pc = "returned"
        /\ evaluator.plan[1].type = "restart"
        /\ IF CooldownRunning
           THEN /\ evaluator.plan[1].dry_run
                /\ evaluator.reason = "restart_blocked_by_cooldown"
                /\ evaluator.last_restart_at = evaluator.last_before
           ELSE /\ ~evaluator.plan[1].dry_run
                /\ evaluator.last_restart_at = << evaluator.at >>

(* what the chosen scale policy asks for *)
RequestedReplicas == evaluator.chosen[1].action.scale_replicas[1]

(* C30: for every scale policy the plan carries replicas within            *)
(* MIN_REPLICAS..MAX_REPLICAS; a request outside the bounds (99, or 0)     *)
(* gives dry_run=true with the reason scale_outside_limits_clamped_dry_run *)
(* and the nearest bound; a request inside gives dry_run=false.            *)
C30_ReplicaClamp ==
    EvalEnded /\ WellTyped /\ HoldingKinds = {"scale"} =>
        /\ evaluator.pc = "returned"
        /\ evaluator.plan[1].type = "scale"
        /\ evaluator.plan[1].scale[1] \in MIN_REPLICAS..MAX_REPLICAS
        /\ IF RequestedReplicas \in MIN_REPLICAS..MAX_REPLICAS
           THEN /\ ~evaluator.plan[1].dry_run
                /\ evaluator.plan[1].scale[1] = RequestedReplicas
           ELSE /\ evaluator.plan[1].dry_run
                /\ evaluator.reason = "scale_outside_limits_clamped_dry_run"
                /\ evaluator.plan[1].scale[1] =
                     Max(MIN_REPLICAS, Min(MAX_REPLICAS, RequestedReplicas))

----------------------------------------------------------------------------
(* Determinism of the Evaluator *)

TwinsEnded ==
    /\ engine.twins.one.pc \in {"returned", "raised"}
    /\ engine.twins.two.pc \in {"returned", "raised"}

----------------------------------------------------------------------------
(* Audit log *)

RECURSIVE Reversed(_)
Reversed(l) == IF l = <<>> THEN <<>> ELSE Append(Reversed(Tail(l)), Head(l))

(* the k most recently appended valid events, newest first *)
NewestValid(lines, k) ==
    LET valid == Reversed(ParsedEvents(lines))
    IN  IF k >= Len(valid) THEN valid ELSE SubSeq(valid, 1, k)

(* C32: reading the audit log with limit N returns at most N events, the N *)
(* most recently appended valid events, newest first; lines that are not   *)
(* JSON are skipped without failing the read; writing an event appends one *)
(* line and changes no earlier line.                                       *)
C32_AuditReadNewestFirst ==
    /\ [](engine.audit.reader # "none" =>
            /\ Len(engine.audit.events) <= engine.audit.limit
            /\ engine.audit.events
                 = NewestValid(engine.audit.lines, engine.audit.limit))
    /\ [][engine'.audit.lines # engine.audit.lines =>
            /\ Len(engine'.audit.lines) = Len(engine.audit.lines) + 1
            /\ SubSeq(engine'.audit.lines, 1, Len(engine.audit.lines))
                 = engine.audit.lines]_vars

----------------------------------------------------------------------------
(* Queue order *)

(* C33: the closed-loop queue is FIFO: the worker takes the item that was  *)
(* put first, a put leaves the waiting items in their order and adds the   *)
(* new one behind them, and a retry item goes to the back of the same      *)
(* queue, behind every item enqueued before its backoff sleep ended.       *)
C33_QueueIsFifo ==
    [][ /\ queue' # queue =>
             \/ /\ queue # <<>>
                /\ queue' = Tail(queue)
                /\ cur' # cur => cur'[1].item = Head(queue)
             \/ /\ Len(queue') = Len(queue) + 1
                /\ SubSeq(queue', 1, Len(queue)) = queue
        /\ (pc = "sleep" /\ pc' = "get" /\ worker_task' /\ ~QueueFull) =>
             /\ queue' = queue \o << RetryItem(cur[1].item) >>
      ]_vars

(* a retry item waits behind an item that was enqueued during its backoff *)
C33_Witness ==
    /\ Len(queue) = 2
    /\ queue[1].attempt = 0
    /\ queue[2].attempt = 1
    /\ queue[2].id < queue[1].id

----------------------------------------------------------------------------
(* Fields without a value *)

(* the signal gives the field no value: an anomaly.* field of an RCA       *)
(* signal, an rca.* field of an anomaly signal or of an RCA signal without *)
(* ranked causes                                                           *)
NoValue(field, signal) ==
    \/ field \in {"anomaly.type", "anomaly.score"} /\ signal.kind = "rca"
    \/ /\ field \in {"rca.cause", "rca.probability"}
       /\ signal.kind = "anomaly" \/ signal.rankedCauses = <<>>

Unresolvable(policy, signal) ==
    \E n \in 1..Len(policy.conditions) : NoValue(policy.conditions[n].field, signal)

(* the request dicts give the field no value *)
DictUnresolvable(policy, anomaly, rca) ==
    \E n \in 1..Len(policy.conditions) :
       LET field == policy.conditions[n].field
       IN  \/ field \in {"anomaly.type", "anomaly.score"}
              /\ FieldKey(field) \notin DOMAIN anomaly
           \/ field \in {"rca.cause", "rca.probability"}
              /\ FieldKey(field) \notin DOMAIN rca

(* C34: a policy with a condition on a field the signal gives no value     *)
(* never matches, whatever the operator, and is never chosen: when every   *)
(* loaded policy is such a policy, the evaluation finds no match.  The     *)
(* same holds for the matching of runtime/engine.py over request dicts.    *)
C34_UnresolvableNeverMatches ==
    EvalEnded =>
      /\ \A i \in 1..Len(evaluator.policies) :
            Unresolvable(evaluator.policies[i], evaluator.signal) =>
              /\ policy_matches(evaluator.policies[i], evaluator.signal) # "true"
              /\ evaluator.chosen # << evaluator.policies[i] >>
      /\ (\A i \in 1..Len(evaluator.policies) :
             Unresolvable(evaluator.policies[i], evaluator.signal)) =>
              /\ evaluator.exc # NoPriorityError
              /\ evaluator.chosen = <<>>
      /\ \A i \in 1..Len(evaluator.policies), anomaly \in AnomalyDicts, rca \in RcaDicts :
            DictUnresolvable(evaluator.policies[i], anomaly, rca) =>
              engine_policy_matches(evaluator.policies[i], anomaly, rca) # "true"

(* an anomaly signal was evaluated against policies that all test an rca   *)
(* field with ==, one of them after a condition that holds, and no policy  *)
(* matched                                                                 *)
C34_Witness ==
    /\ EvalEnded
    /\ evaluator.signal = AnomalySignal("latency", 90)
    /\ Len(evaluator.policies) = 2
    /\ \A i \in 1..2 : Unresolvable(evaluator.policies[i], evaluator.signal)
    /\ \E i \in 1..2 : evaluator.policies[i].name = "restart_on_latency_from_cpu"
    /\ evaluator.reason = "no_match_fallback_restart_dry_run"

----------------------------------------------------------------------------
(* Scale targets over the attempts of one signal *)

(* C35: for one ingested scale-triggering signal, every replica target     *)
(* requested from the cluster, at the first attempt and at each retry, is  *)
(* at most one above the replica count the workload had when the signal    *)
(* was first processed.                                                    *)
C35_RetriesScaleByAtMostOne ==
    (pc = "execute" /\ cur[1].action_req.type = "scale") =>
        cur[1].action_req.scale[1] <= first_replicas[cur[1].item.id][1] + 1

----------------------------------------------------------------------------
(* What a fleet-guardrail block leaves behind *)

(* C36: a step in which a fleet guardrail blocks the item leaves the       *)
(* last-action timestamps and the scale history as they were, and changes  *)
(* the per-hour history of the item's key only by dropping the entries     *)
(* older than one hour: nothing is added for the blocked item, and the     *)
(* histories of the other keys stay as they were.                          *)
C36_FleetBlockKeepsGuardrailState ==
    [][ (WorkerTook /\ last_event'.reason \in FleetReasons) =>
          /\ last_action_at' = last_action_at
          /\ scale_history' = scale_history
          /\ DOMAIN action_history \subseteq DOMAIN action_history'
          /\ DOMAIN action_history' \subseteq DOMAIN action_history \cup {HeadKey}
          /\ \A k \in DOMAIN action_history' :
               LET old == DictGet(action_history, k, <<>>)
                   WithinTheHour(t) == t >= clock - HourWindow
               IN  IF k = HeadKey
                   THEN action_history'[k] \in {old, SelectSeq(old, WithinTheHour)}
                   ELSE action_history'[k] = old
      ]_vars

(* a fleet guardrail has just blocked an item more than an hour after the  *)
(* submissions of its key, and the key's per-hour history is empty         *)
C36_Witness ==
    /\ last_event.step = "guardrail_blocked"
    /\ last_event.reason \in FleetReasons
    /\ pc = "get"
    /\ \E k \in DOMAIN submitted \cap DOMAIN action_history :
          /\ submitted[k] # <<>>
          /\ \A n \in 1..Len(submitted[k]) : submitted[k][n] < clock - HourWindow
          /\ action_history[k] = <<>>

----------------------------------------------------------------------------
(* Overlapping reloads *)

(* C37: a reload that read the policy file earlier never replaces the list *)
(* installed by a reload that read it later, so after overlapping reloads  *)
(* the store holds the list parsed from the content that was read last.    *)
C37_LastReadWins ==
    [][ store'.installed_read < store.installed_read =>
            store'.policies = store.policies ]_vars

----------------------------------------------------------------------------
(* The restart cooldown and the service of the signal *)

(* a restart was allowed for the service of the evaluated signal less than *)
(* RESTART_COOLDOWN_SECONDS before the evaluation                          *)
OwnCooldownRunning ==
    \E r \in evaluator.restarts_before :
        /\ r.service = evaluator.signal.service
        /\ evaluator.at - r.at < RESTART_COOLDOWN_SECONDS

(* C38: the restart cooldown is per target: a signal that triggers a       *)
(* restart, of a service for which no restart was allowed within the last  *)
(* RESTART_COOLDOWN_SECONDS, is decided as a restart with dry_run=false,   *)
(* whatever was decided for signals of other services in that time.        *)
C38_CooldownPerTarget ==
    EvalEnded /\ WellTyped /\ HoldingKinds = {"restart"} /\ ~OwnCooldownRunning =>
        /\ evaluator.pc = "returned"
        /\ evaluator.plan[1].type = "restart"
        /\ ~evaluator.plan[1].dry_run

----------------------------------------------------------------------------
(* The writers of the restart cooldown maps: evaluate_signal_with_policies *)
(* (runtime/evaluator.py) and apply_guardrails (runtime/guardrails.py),    *)
(* each with its own _last_restart_at                                      *)

MaxGuardClock == 180

GuardClockStep == 60

GuardTargets == {"erp-simulator", "payments"}

(* the action plan dicts handed to apply_guardrails; replicas <<>> is a    *)
(* plan without scale.replicas                                             *)
RestartPlan(name) ==
    [type |-> "restart", target |-> <<"smartops-dev", name>>, replicas |-> <<>>]

ScalePlan(n) ==
    [type |-> "scale", target |-> <<"smartops-dev", "erp-simulator">>,
     replicas |-> n]

ActionPlans ==
    { RestartPlan(name) : name \in GuardTargets } \cup
    { ScalePlan(<<6>>), ScalePlan(<<99>>), ScalePlan(<<0>>), ScalePlan(<<>>) }

GuardAnswer(allowed, reason, last_restart_at) ==
    [allowed |-> allowed, reason |-> reason, last_restart_at |-> last_restart_at]

(* Mutant: a blocked restart is stamped as well *)
apply_guardrails_stamping_blocked(action_plan, last_restart_at, now) ==
    LET key == action_plan.target
        last == dict_get(last_restart_at, key)
    IN  IF action_plan.type = "scale" /\ action_plan.replicas = <<>>
        THEN GuardAnswer(FALSE, "scale.replicas missing", last_restart_at)
        ELSE IF /\ action_plan.type = "scale"
                /\ \/ action_plan.replicas[1] < MIN_REPLICAS
                   \/ action_plan.replicas[1] > MAX_REPLICAS
        THEN GuardAnswer(FALSE, "replicas out of bounds", last_restart_at)
        ELSE IF action_plan.type = "restart"
        THEN IF last # <<>> /\ now - last[1] < RESTART_COOLDOWN_SECONDS
             THEN GuardAnswer(FALSE, "restart cooldown active",
                              DictSet(last_restart_at, key, now))
             ELSE GuardAnswer(TRUE, "allowed", DictSet(last_restart_at, key, now))
        ELSE GuardAnswer(TRUE, "allowed", last_restart_at)

(* apply_guardrails(action_plan) at time now with the module's             *)
(* _last_restart_at: (allowed, reason) and _last_restart_at afterwards     *)
apply_guardrails(action_plan, last_restart_at, now) ==
    LET key == action_plan.target
        last == dict_get(last_restart_at, key)
    IN  IF action_plan.type = "scale" /\ action_plan.replicas = <<>>
        THEN GuardAnswer(FALSE, "scale.replicas missing", last_restart_at)
        ELSE IF /\ action_plan.type = "scale"
                /\ \/ action_plan.replicas[1] < MIN_REPLICAS
                   \/ action_plan.replicas[1] > MAX_REPLICAS
        THEN GuardAnswer(FALSE, "replicas out of bounds", last_restart_at)
        ELSE IF action_plan.type = "restart"
        THEN IF last # <<>> /\ now - last[1] < RESTART_COOLDOWN_SECONDS
             THEN GuardAnswer(FALSE, "restart cooldown active", last_restart_at)
             ELSE GuardAnswer(TRUE, "allowed", DictSet(last_restart_at, key, now))
        ELSE GuardAnswer(TRUE, "allowed", last_restart_at)

(* a caller has an action plan checked *)
GuardCall ==
    /\ \E action_plan \in ActionPlans :
         LET g == engine.guard
             r == apply_guardrails(action_plan, g.last_restart_at, g.now)
             restart == action_plan.type = "restart"
         IN  engine' =
               [engine EXCEPT !.guard =
                  [g EXCEPT !.plan = << action_plan >>,
                            !.allowed = r.allowed,
                            !.reason = r.reason,
                            !.last_before = g.last_restart_at,
                            !.last_restart_at = r.last_restart_at,
                            !.allowed_at =
                               IF restart /\ r.allowed
                               THEN DictSet(g.allowed_at, action_plan.target, g.now)
                               ELSE g.allowed_at,
                            !.blocked_in_row =
                               IF restart /\ r.allowed THEN 0
                               ELSE IF restart THEN Min(g.blocked_in_row + 1, 2)
                               ELSE g.blocked_in_row]]
    /\ UNCHANGED beside_engine

(* datetime.utcnow() moves on between calls *)
GuardTick ==
    /\ engine.guard.now + GuardClockStep <= MaxGuardClock
    /\ engine' = [engine EXCEPT !.guard.now = @ + GuardClockStep]
    /\ UNCHANGED beside_engine

(* one evaluation about to run, on a policy list of at most one policy;    *)
(* the Evaluator's own cooldown map is as the module creates it            *)
CooldownCalls ==
    { [EvaluatorIdle EXCEPT !.pc = "eval", !.policies = policies,
                            !.signal = signal, !.now = GuardClockStep, !.evals = 1] :
        policies \in { l \in PolicyLists : Len(l) <= 1 }, signal \in Signals }

InitCooldown ==
    /\ ClosedLoopAtRest
    /\ engine \in { [EngineIdle EXCEPT !.twins.one = c] : c \in CooldownCalls }
    /\ IdleExcept("engine")

NextCooldown == TwinEvaluate("one") \/ GuardCall \/ GuardTick

SpecCooldown == InitCooldown /\ [][NextCooldown]_vars

(* C39: only an allowed restart writes a cooldown map.  In the Evaluator a *)
(* step changes _last_restart_at only by returning a restart with          *)
(* dry_run=false, so the no-match fallback leaves it as it was; in         *)
(* apply_guardrails a blocked restart, a scale plan (allowed or not) and   *)
(* any other plan leave it as it was.  The map therefore always holds the  *)
(* time of the latest allowed restart of each target, and a restart is     *)
(* allowed again RESTART_COOLDOWN_SECONDS after it however many requests   *)
(* were blocked in between.                                                *)
C39_OnlyAllowedRestartWritesCooldown ==
    /\ [](engine.guard.last_restart_at = engine.guard.allowed_at)
    /\ [][ /\ engine'.twins.one.last_restart_at # engine.twins.one.last_restart_at =>
                /\ engine'.twins.one.reason = "restart_allowed"
                /\ ~engine'.twins.one.plan[1].dry_run
           /\ engine'.twins.one.reason = "no_match_fallback_restart_dry_run" =>
                engine'.twins.one.last_restart_at = engine.twins.one.last_restart_at
           /\ engine'.guard.last_restart_at # engine.guard.last_restart_at =>
                /\ engine'.guard.plan[1].type = "restart"
                /\ engine'.guard.allowed
                /\ engine'.guard.last_restart_at =
                     DictSet(engine.guard.last_restart_at,
                             engine'.guard.plan[1].target, engine.guard.now)
           /\ ( /\ engine'.guard.plan # engine.guard.plan
                /\ engine'.guard.plan[1].type = "restart"
                /\ engine'.guard.plan[1].target \in DOMAIN engine.guard.allowed_at
                /\ engine.guard.now
                     - engine.guard.allowed_at[engine'.guard.plan[1].target]
                       >= RESTART_COOLDOWN_SECONDS ) => engine'.guard.allowed
         ]_vars

(* two restart requests in a row were blocked, the latest 60 s after the   *)
(* allowed one, and the map still holds the time of the allowed restart;   *)
(* the evaluation has returned the no-match fallback, its map still empty  *)
C39_Witness ==
    /\ engine.guard.blocked_in_row = 2
    /\ engine.guard.reason = "restart cooldown active"
    /\ engine.guard.plan = << RestartPlan("erp-simulator") >>
    /\ engine.guard.now = 60
    /\ engine.guard.last_restart_at = engine.guard.last_before
    /\ dict_get(engine.guard.last_restart_at, RestartPlan("erp-simulator").target) = <<0>>
    /\ engine.twins.one.reason = "no_match_fallback_restart_dry_run"
    /\ engine.twins.one.last_restart_at = <<>>

====
